---- MODULE Spec2Model ----
(***************************************************************************)
(* Festival-impact analytics of the 112 helpline dashboard.                *)
(*                                                                         *)
(* The module models modules/ics_calendar_integration.py (the festival     *)
(* repository: feed parsing, festival-likeness filter, merge of feeds,     *)
(* fallback table, persistence, staleness policy, range query, impact      *)
(* classification) and modules/festivals_utils.py (top-N selection).       *)
(*                                                                         *)
(* Strings are TLA+ strings; Python's substring test, lower() and strip()  *)
(* are computed character by character.  Time is counted in half days so   *)
(* that timedelta.days (a floor) is a real conversion.                     *)
(***************************************************************************)
EXTENDS Integers, Sequences, FiniteSets, TLC

VARIABLES
    title,               \* SpecFilter: the event title handed to the filter
    verdict,             \* SpecFilter: what _is_likely_festival returned
    now,                 \* datetime.now(), in ticks (fractions of a day) since the epoch
    metaFile,            \* data/festivals_cache_metadata.json
    jsonFile,            \* data/festivals_database.json
    icsFile,             \* data/indian_festivals.ics
    festivals_cache,     \* self.festivals_cache
    pc,                  \* where the session's running call stands
    caller,              \* the entry point that started the running call, with its arguments
    src,                 \* index of the next calendar source to fetch
    all_festivals,       \* local of _fetch_and_store_comprehensive_festivals
    successful_fetches,  \* local of _fetch_and_store_comprehensive_festivals
    result,              \* what the last finished call returned
    observed,            \* what a reader of self.festivals_cache saw last
    attempted,           \* history: sources requested in the current fetch round
    failed,              \* history: sources of the round that raised
    yielded,             \* history: date keys parsed from the round's sources
    expected,            \* history: first-seen-longest record per date of the round
    lastRaw,             \* SpecParse: the response handed to parse_ics_content
    lastParsed,          \* SpecParse: what parse_ics_content returned
    usedFallback,        \* history: the round ended in the fallback table
    cacheAtStart,        \* history: self.festivals_cache when the running call began
    lastFetchAt,         \* history: when the last fetch round ended
    args,                \* SpecAnalysis: the arguments of the analysis call
    analysis,            \* SpecAnalysis: what the analysis call gave back
    last                 \* history: the last initialize_festival_database call

\* ------------------------------------------------------------------ strings

NoValue == "<none>"

UpperAlpha == "ABCDEFGHIJKLMNOPQRSTUVWXYZ"
LowerAlpha == "abcdefghijklmnopqrstuvwxyz"

CharAt(s, i) == SubSeq(s, i, i)

\* one character of str.lower()
LowerChar(c) ==
    IF \E i \in 1..Len(UpperAlpha) : CharAt(UpperAlpha, i) = c
    THEN CharAt(LowerAlpha, CHOOSE i \in 1..Len(UpperAlpha) : CharAt(UpperAlpha, i) = c)
    ELSE c

RECURSIVE Lower(_)
Lower(s) ==
    IF Len(s) = 0 THEN ""
    ELSE LowerChar(CharAt(s, 1)) \o Lower(SubSeq(s, 2, Len(s)))

IsSpace(c) == c \in {" ", "\t", "\n"}

RECURSIVE LStrip(_)
LStrip(s) ==
    IF Len(s) > 0 /\ IsSpace(CharAt(s, 1)) THEN LStrip(SubSeq(s, 2, Len(s))) ELSE s

RECURSIVE RStrip(_)
RStrip(s) ==
    IF Len(s) > 0 /\ IsSpace(CharAt(s, Len(s))) THEN RStrip(SubSeq(s, 1, Len(s) - 1)) ELSE s

\* str.strip()
Strip(s) == RStrip(LStrip(s))

\* Python's  k in s  on strings
Contains(s, k) ==
    \E i \in 1..(Len(s) - Len(k) + 1) : SubSeq(s, i, i + Len(k) - 1) = k

\* ------------------------------------------------- festival-likeness filter

excluded_keywords ==
    << "independence day", "republic day", "gandhi jayanti",
       "birthday", "death anniversary", "national", "international",
       "world", "day of", "awareness", "week", "month", "memorial",
       "remembrance", "solidarity", "earth day", "environment",
       "health", "safety", "awareness", "conference", "meeting" >>

festival_keywords ==
    << "diwali", "deepavali", "holi", "dussehra", "dasara", "vijayadashami",
       "ganesh", "ganapati", "navratri", "durga", "kali", "lakshmi",
       "karva", "karwa", "raksha", "rakhi", "janmashtami", "krishna",
       "ram navami", "hanuman", "shivratri", "makar sankranti", "pongal",
       "baisakhi", "vaisakhi", "onam", "vishu", "ugadi", "gudi padwa",
       "akshaya tritiya", "teej", "ahoi ashtami", "dhanteras", "govardhan",
       "bhai dooj", "chhath", "kartikeya", "ganga dussehra", "rath yatra",
       "guru nanak", "guru gobind", "vasant panchami", "magh purnima",
       "maharana pratap", "chhatrapati", "festival", "celebration",
       "eid", "ramadan", "muharram", "christmas", "good friday", "easter",
       "pooja", "puja", "jayanti", "vratam", "vrata", "chaturthi",
       "purnima", "amavasya", "ekadashi", "sankranti", "vivah" >>

ContainsAny(s, keywords) ==
    \E i \in 1..Len(keywords) : Contains(s, keywords[i])

\* the filter with the two tests in the wrong order: allowlist first
is_likely_festival_allow_first(event_name) ==
    LET name_lower == Strip(Lower(event_name))
    IN  IF ContainsAny(name_lower, festival_keywords) THEN TRUE
        ELSE FALSE

is_likely_festival(event_name) ==
    LET name_lower == Strip(Lower(event_name))
    IN  IF ContainsAny(name_lower, excluded_keywords) THEN FALSE
        ELSE ContainsAny(name_lower, festival_keywords)

\* -------------------------------------------------------------- dates, maps

TicksPerDay == 2

EpochYear == 2026

DaysPerYear == 365

\* datetime.now().year
YearOf(t) == EpochYear + (t \div (TicksPerDay * DaysPerYear))

\* a naive datetime: year, month, day, hour
DateTime(y, m, d, h) == [y |-> y, m |-> m, d |-> d, h |-> h]

\* an aware datetime, as icalendar gives for a DTSTART in UTC
AwareDateTime(y, m, d, h) == [y |-> y, m |-> m, d |-> d, h |-> h, tzinfo |-> "UTC"]

IsAware(dt) == "tzinfo" \in DOMAIN dt

Pad2(n) == IF n < 10 THEN "0" \o ToString(n) ELSE ToString(n)

\* strftime('%Y-%m-%d')
strftime_ymd(dt) == ToString(dt.y) \o "-" \o Pad2(dt.m) \o "-" \o Pad2(dt.d)

\* Python dicts keyed by date string are functions on their key set
EmptyMap == <<>>

Put(map, k, v) == [x \in (DOMAIN map) \cup {k} |-> IF x = k THEN v ELSE map[x]]

\* ------------------------------------------------------------ ICS parsing

\* response text: a calendar of components, or text that Calendar.from_ical rejects
IcsText(components) == [parsable |-> TRUE, components |-> components]

Unparsable == [parsable |-> FALSE, components |-> <<>>]

\* a DTSTART property holding a date, one holding a datetime, and none at all
DtStartDate(y, m, d) == [kind |-> "date", y |-> y, m |-> m, d |-> d, h |-> 0]

DtStartDateTime(y, m, d, h) == [kind |-> "datetime", y |-> y, m |-> m, d |-> d, h |-> h]

\* DTSTART:...Z, a datetime in UTC
DtStartDateTimeUtc(y, m, d, h) == [kind |-> "datetime_utc", y |-> y, m |-> m, d |-> d, h |-> h]

NoDtStart == [kind |-> "none", y |-> 0, m |-> 0, d |-> 0, h |-> 0]

Component(name, summary, dtstart, description) ==
    [name |-> name, summary |-> summary, dtstart |-> dtstart, description |-> description]

\* component.get(key, '') followed by str()
GetStr(component, key) ==
    IF component[key] = NoValue THEN "" ELSE component[key]

\* lines 153-159: a date becomes midnight of that day, a datetime is kept
EventDate(dtstart) ==
    IF dtstart.kind = "datetime_utc"
    THEN AwareDateTime(dtstart.y, dtstart.m, dtstart.d, dtstart.h)
    ELSE IF dtstart.kind = "datetime"
    THEN DateTime(dtstart.y, dtstart.m, dtstart.d, dtstart.h)
    ELSE DateTime(dtstart.y, dtstart.m, dtstart.d, 0)

FestivalOf(component) ==
    [ name        |-> Strip(GetStr(component, "summary")),
      date        |-> EventDate(component.dtstart),
      description |-> Strip(GetStr(component, "description")),
      source      |-> "ics_import" ]

\* the parse without the festival-likeness test
ParseComponentUnfiltered(festivals, component) ==
    LET summary == GetStr(component, "summary")
        dtstart == component.dtstart
    IN  IF /\ component.name = "VEVENT"
           /\ dtstart.kind # "none"
           /\ summary # ""
        THEN Put(festivals, strftime_ymd(EventDate(dtstart)), FestivalOf(component))
        ELSE festivals

\* lines 147-169, one component of cal.walk()
ParseComponent(festivals, component) ==
    LET summary == GetStr(component, "summary")
        dtstart == component.dtstart
    IN  IF /\ component.name = "VEVENT"
           /\ dtstart.kind # "none"
           /\ summary # ""
           /\ is_likely_festival(summary)
        THEN Put(festivals, strftime_ymd(EventDate(dtstart)), FestivalOf(component))
        ELSE festivals

RECURSIVE ParseWalk(_, _, _)
ParseWalk(components, i, festivals) ==
    IF i > Len(components) THEN festivals
    ELSE ParseWalk(components, i + 1, ParseComponent(festivals, components[i]))

parse_ics_content(ics_content) ==
    IF ~ics_content.parsable THEN EmptyMap
    ELSE ParseWalk(ics_content.components, 1, EmptyMap)

\* lines 93-100: merge one source's festivals into all_festivals
MergeFestivals(all, festivals) ==
    [ k \in (DOMAIN all) \cup (DOMAIN festivals) |->
        IF k \notin DOMAIN all THEN festivals[k]
        ELSE IF /\ k \in DOMAIN festivals
                /\ Len(festivals[k].description) > Len(all[k].description)
             THEN festivals[k]
             ELSE all[k] ]

\* ---------------------------------------------------------- fallback table

YearsBack == 25

YearsAheadExclusive == 26

FallbackDayOfMonth == 15

base_festivals ==
    << [month |-> 10, name |-> "Diwali"],
       [month |-> 3,  name |-> "Holi"],
       [month |-> 10, name |-> "Dussehra"],
       [month |-> 8,  name |-> "Ganesh Chaturthi"],
       [month |-> 9,  name |-> "Navratri"],
       [month |-> 8,  name |-> "Raksha Bandhan"],
       [month |-> 8,  name |-> "Krishna Janmashtami"],
       [month |-> 10, name |-> "Karva Chauth"],
       [month |-> 10, name |-> "Dhanteras"],
       [month |-> 11, name |-> "Bhai Dooj"],
       [month |-> 1,  name |-> "Makar Sankranti"],
       [month |-> 2,  name |-> "Maha Shivratri"],
       [month |-> 4,  name |-> "Ram Navami"],
       [month |-> 4,  name |-> "Hanuman Jayanti"] >>

FallbackRecord(year, fest_info) ==
    [ name        |-> fest_info.name,
      date        |-> DateTime(year, fest_info.month, FallbackDayOfMonth, 0),
      description |-> "Approximate date for " \o fest_info.name,
      source      |-> "fallback" ]

\* lines 236-247: the inner loop over base_festivals for one year
RECURSIVE FallbackYear(_, _, _)
FallbackYear(year, i, acc) ==
    IF i > Len(base_festivals) THEN acc
    ELSE LET rec == FallbackRecord(year, base_festivals[i])
         IN  FallbackYear(year, i + 1, Put(acc, strftime_ymd(rec.date), rec))

\* dict assignments of m made after those of acc
Overwrite(acc, m) ==
    [k \in (DOMAIN acc) \cup (DOMAIN m) |-> IF k \in DOMAIN m THEN m[k] ELSE acc[k]]

\* line 235: for year in range(start, stop), the years taken in order; the
\* range is halved so that the evaluation stays shallow
RECURSIVE FallbackYears(_, _)
FallbackYears(start, stop) ==
    IF start >= stop THEN EmptyMap
    ELSE IF stop - start = 1 THEN FallbackYear(start, 1, EmptyMap)
    ELSE LET mid == start + ((stop - start) \div 2)
         IN  Overwrite(FallbackYears(start, mid), FallbackYears(mid, stop))

create_minimal_fallback_database(t) ==
    LET current_year == YearOf(t)
    IN  FallbackYears(current_year - YearsBack, current_year + YearsAheadExclusive)

\* ------------------------------------------------------------ persistence

\* a file that does not exist
NoJson == [exists |-> FALSE, data |-> EmptyMap]

NoMeta == [exists |-> FALSE, last_update |-> 0, total_festivals |-> 0, sources |-> {}]

NoIcs == [exists |-> FALSE, events |-> 0]

Digits == "0123456789"

DigitVal(c) == (CHOOSE i \in 1..Len(Digits) : CharAt(Digits, i) = c) - 1

RECURSIVE ToInt(_)
ToInt(s) ==
    IF Len(s) = 0 THEN 0
    ELSE 10 * ToInt(SubSeq(s, 1, Len(s) - 1)) + DigitVal(CharAt(s, Len(s)))

\* datetime.isoformat() of a datetime with whole hours; an aware one carries
\* its offset
isoformat(dt) ==
    strftime_ymd(dt) \o "T" \o Pad2(dt.h) \o ":00:00"
        \o (IF IsAware(dt) THEN "+00:00" ELSE "")

\* only the date part of the string is read back: midnight of that day
fromisoformat_midnight(s) ==
    DateTime(ToInt(SubSeq(s, 1, 4)), ToInt(SubSeq(s, 6, 7)), ToInt(SubSeq(s, 9, 10)), 0)

\* datetime.fromisoformat()
fromisoformat(s) ==
    IF Len(s) > 19
    THEN AwareDateTime(ToInt(SubSeq(s, 1, 4)), ToInt(SubSeq(s, 6, 7)),
                       ToInt(SubSeq(s, 9, 10)), ToInt(SubSeq(s, 12, 13)))
    ELSE DateTime(ToInt(SubSeq(s, 1, 4)), ToInt(SubSeq(s, 6, 7)),
                  ToInt(SubSeq(s, 9, 10)), ToInt(SubSeq(s, 12, 13)))

\* lines 258-262: the JSON form of the festival dict
ToJson(festivals) ==
    [ exists |-> TRUE,
      data   |-> [k \in DOMAIN festivals |-> [festivals[k] EXCEPT !.date = isoformat(@)]] ]

\* lines 268-273 (date_range, a display string, is left out)
Metadata(festivals, t) ==
    [ exists          |-> TRUE,
      last_update     |-> t,
      total_festivals |-> Cardinality(DOMAIN festivals),
      sources         |-> {festivals[k].source : k \in DOMAIN festivals} ]

\* What the three file writes of a fetch round may do.  A write either
\* happens completely or raises and leaves the file as it was.
SaveOutcomes == {"ok", "json_fails", "meta_fails"}

\* _save_festival_database: the database file after the call
SavedJson(festivals, outcome) ==
    IF outcome = "json_fails" THEN jsonFile ELSE ToJson(festivals)

\* _save_festival_database: the metadata file after the call; the write is
\* skipped when the database write raised
SavedMeta(festivals, outcome) ==
    IF outcome \in {"json_fails", "meta_fails"} THEN metaFile
    ELSE Metadata(festivals, now)

\* _save_ics_locally, called only for a non-empty dict (the file is written
\* for reference and never read back)
SavedIcs(festivals) ==
    IF festivals = EmptyMap THEN icsFile
    ELSE [exists |-> TRUE, events |-> Cardinality(DOMAIN festivals)]

\* _load_local_festival_database
load_local_festival_database ==
    [k \in DOMAIN jsonFile.data |-> [jsonFile.data[k] EXCEPT !.date = fromisoformat(@)]]

\* ------------------------------------------------------- staleness policy

StaleDays == 180

\* timedelta.days: whole days, rounded down
AgeDays(t, last_update) == (t - last_update) \div TicksPerDay

\* the staleness test compares with >= instead of >
should_refresh_database_ge ==
    IF ~metaFile.exists THEN TRUE
    ELSE AgeDays(now, metaFile.last_update) >= StaleDays

should_refresh_database ==
    IF ~metaFile.exists THEN TRUE
    ELSE AgeDays(now, metaFile.last_update) > StaleDays

\* the stored timestamp is not consulted: every call goes to the feeds
WillFetchAlways(force_refresh) == TRUE

\* a stored fallback table is not trusted: the feeds are tried again
WillFetchRetryFallback(force_refresh) ==
    \/ force_refresh
    \/ should_refresh_database
    \/ ~jsonFile.exists
    \/ metaFile.sources = {"fallback"}

\* lines 33-43: whether initialize_festival_database goes to the feeds
WillFetch(force_refresh) ==
    \/ force_refresh
    \/ should_refresh_database
    \/ ~jsonFile.exists

\* ------------------------------------------------------------ range query

\* datetime <= datetime
DtLE(a, b) ==
    \/ a.y < b.y
    \/ a.y = b.y /\ a.m < b.m
    \/ a.y = b.y /\ a.m = b.m /\ a.d < b.d
    \/ a.y = b.y /\ a.m = b.m /\ a.d = b.d /\ a.h <= b.h

\* lines 367-374
FilterRange(festivals, start_date, end_date) ==
    LET keep == {k \in DOMAIN festivals :
                    DtLE(start_date, festivals[k].date) /\ DtLE(festivals[k].date, end_date)}
    IN  [k \in keep |-> festivals[k]]

\* what the caller gets in place of a map when the comparison of line 371
\* raises
TypeError == [error |-> "TypeError"]

\* line 371: Python refuses to order a naive and an aware datetime
RangeRaises(festivals, start_date, end_date) ==
    \E k \in DOMAIN festivals :
        \/ IsAware(festivals[k].date) # IsAware(start_date)
        \/ IsAware(festivals[k].date) # IsAware(end_date)

\* lines 367-374 with their outcome
RangeResult(festivals, start_date, end_date) ==
    IF RangeRaises(festivals, start_date, end_date) THEN TypeError
    ELSE FilterRange(festivals, start_date, end_date)

\* ------------------------------------------------------------ calendar feeds

\* line 69-82: len(calendar_sources)
NumSources == 3

\* what requests.get(...) of one source does: raise, or answer with a body
Unreachable == [kind |-> "unreachable", body |-> Unparsable]

Answer(body) == [kind |-> "ok", body |-> body]

D1 == DtStartDate(2026, 10, 15)

D2 == DtStartDateTime(2026, 3, 8, 18)

EvDiwali   == Component("VEVENT", "Diwali", D1, "lights")
EvLakshmi  == Component("VEVENT", " Lakshmi Puja ", D1, "puja")
EvKali     == Component("VEVENT", "KALI PUJA", D1, "sweets")
EvHoli     == Component("VEVENT", "Holi", D2, NoValue)
EvLunch    == Component("VEVENT", "Team Lunch", D1, "a long description of lunch")
EvAware    == Component("VEVENT", "Diwali Awareness Day", D2, "a long description")
EvUntitled == Component("VEVENT", NoValue, D1, "lights")
EvUndated  == Component("VEVENT", "Holi", NoDtStart, "colours")
EvTimezone == Component("VTIMEZONE", "Diwali", D2, "zone")

FeedEvents ==
    {EvDiwali, EvLakshmi, EvKali, EvHoli, EvLunch, EvAware, EvUntitled, EvUndated, EvTimezone}

MaxEvents == 2

Bodies(events, n) == UNION {[1..k -> events] : k \in 0..n}

\* the outcomes of one source in SpecFetch
RichOutcomes ==
    {Unreachable, Answer(Unparsable)}
        \cup {Answer(IcsText(b)) : b \in Bodies(FeedEvents, MaxEvents)}

\* the outcomes of one source in Spec
TinyOutcomes ==
    {Answer(IcsText(<<EvDiwali>>)), Answer(IcsText(<<EvKali>>))}

\* ------------------------------------------------------------ history only

\* whether parse_ics_content takes the component
Accepted(component) ==
    /\ component.name = "VEVENT"
    /\ component.dtstart.kind # "none"
    /\ GetStr(component, "summary") # ""
    /\ is_likely_festival(GetStr(component, "summary"))

\* the dedup rule as stated: a later event replaces the record of its date
\* only when its description is strictly longer
RECURSIVE FirstSeenLongest(_, _, _)
FirstSeenLongest(components, i, acc) ==
    IF i > Len(components) THEN acc
    ELSE LET c == components[i]
             k == strftime_ymd(EventDate(c.dtstart))
             take == /\ Accepted(c)
                     /\ \/ k \notin DOMAIN acc
                        \/ Len(FestivalOf(c).description) > Len(acc[k].description)
         IN  FirstSeenLongest(components, i + 1, IF take THEN Put(acc, k, FestivalOf(c)) ELSE acc)

\* an initialize_festival_database call as it began: its argument, whether it
\* went to the feeds, whether a last-refresh timestamp was on record and how
\* many ticks old it was, whether a fetch round had ended before and how many
\* ticks ago, whether that round ended with the fallback table, and the
\* argument and the path of the call before it
NoCall ==
    [valid |-> FALSE, fresh |-> FALSE, force |-> FALSE, fetched |-> FALSE,
     hadRecord |-> FALSE, elapsed |-> 0, hadFetch |-> FALSE, sinceFetch |-> 0,
     hadFallback |-> FALSE,
     prevValid |-> FALSE, prevForce |-> FALSE, prevFetched |-> FALSE]

CallRecord(force_refresh, fetched) ==
    [valid |-> TRUE, fresh |-> TRUE, force |-> force_refresh, fetched |-> fetched,
     hadRecord |-> metaFile.exists,
     elapsed |-> IF metaFile.exists THEN now - metaFile.last_update ELSE 0,
     hadFetch |-> lastFetchAt >= 0,
     sinceFetch |-> IF lastFetchAt >= 0 THEN now - lastFetchAt ELSE 0,
     hadFallback |-> usedFallback,
     prevValid |-> last.valid, prevForce |-> last.force, prevFetched |-> last.fetched]

\* what is remembered of a call once the clock has moved on
Brief(call) ==
    [NoCall EXCEPT !.valid = call.valid, !.force = call.force, !.fetched = call.fetched]

\* ------------------------------------------------------------------ actions

filterVars == <<title, verdict, args, analysis>>

fileVars == <<metaFile, jsonFile, icsFile>>

roundVars == <<src, all_festivals, successful_fetches, attempted, failed, yielded,
               expected, lastRaw, lastParsed, usedFallback>>

\* everything StartRound sets
startVars == <<pc, roundVars, cacheAtStart, observed>>

vars == <<title, verdict, now, metaFile, jsonFile, icsFile, festivals_cache, pc, caller,
          src, all_festivals, successful_fetches, result, observed, attempted, failed,
          yielded, expected, lastRaw, lastParsed, usedFallback, cacheAtStart,
          lastFetchAt, args, analysis, last>>

NoArg == DateTime(0, 0, 0, 0)

Caller(op, start_date, end_date) == [op |-> op, start_date |-> start_date, end_date |-> end_date]

\* line 66 and 84: _fetch_and_store_comprehensive_festivals starts its loop
StartRound ==
    /\ pc' = "fetching"
    /\ src' = 1
    /\ all_festivals' = EmptyMap
    /\ successful_fetches' = 0
    /\ attempted' = {}
    /\ failed' = {}
    /\ yielded' = {}
    /\ expected' = EmptyMap
    /\ usedFallback' = FALSE
    /\ cacheAtStart' = festivals_cache
    /\ observed' = festivals_cache
    /\ UNCHANGED <<lastRaw, lastParsed>>

\* initialize_festival_database(force_refresh) called by the session
InitializeFestivalDatabase(force_refresh) ==
    /\ pc = "idle"
    /\ caller' = Caller("initialize", NoArg, NoArg)
    /\ last' = CallRecord(force_refresh, WillFetch(force_refresh))
    /\ IF WillFetch(force_refresh)
       THEN StartRound /\ UNCHANGED result
       ELSE /\ result' = load_local_festival_database
            /\ UNCHANGED <<pc, roundVars, cacheAtStart, observed>>
    /\ UNCHANGED <<filterVars, now, fileVars, festivals_cache, lastFetchAt>>

\* force_refresh_database(): the cache is emptied, then the feeds are fetched
ForceRefreshDatabase ==
    /\ pc = "idle"
    /\ caller' = Caller("force_refresh", NoArg, NoArg)
    /\ festivals_cache' = EmptyMap
    /\ last' = CallRecord(TRUE, WillFetch(TRUE))
    /\ StartRound
    /\ UNCHANGED <<filterVars, now, fileVars, result, lastFetchAt>>

\* get_festivals_in_range(start_date, end_date)
GetFestivalsInRange(start_date, end_date) ==
    /\ pc = "idle"
    /\ IF festivals_cache # EmptyMap
       THEN /\ caller' = Caller("get_cached", start_date, end_date)
            /\ result' = RangeResult(festivals_cache, start_date, end_date)
            /\ UNCHANGED <<pc, roundVars, festivals_cache, last, cacheAtStart, observed>>
       ELSE /\ caller' = Caller("get", start_date, end_date)
            /\ last' = CallRecord(FALSE, WillFetch(FALSE))
            /\ IF WillFetch(FALSE)
               THEN StartRound /\ UNCHANGED <<result, festivals_cache>>
               ELSE /\ festivals_cache' = load_local_festival_database
                    /\ result' = RangeResult(load_local_festival_database, start_date, end_date)
                    /\ UNCHANGED <<pc, roundVars, cacheAtStart, observed>>
    /\ UNCHANGED <<filterVars, now, fileVars, lastFetchAt>>

\* where the loop of lines 86-108 goes after one source: on to the next
\* source although this one raised; abandoning the round is the slip
AfterSourceAbort(raised) ==
    IF raised \/ src = NumSources THEN "storing" ELSE "fetching"

AfterSource(raised) ==
    IF src = NumSources THEN "storing" ELSE "fetching"

\* lines 86-108, one pass of the loop: fetch one source, parse it, merge it
\* (the history of the round is kept only when traced)
FetchSource(outcomes, traced) ==
    /\ pc = "fetching"
    /\ \E outcome \in outcomes :
         LET raised    == outcome.kind = "unreachable"
             festivals == IF raised THEN EmptyMap ELSE parse_ics_content(outcome.body)
         IN  /\ attempted' = attempted \cup {src}
             /\ IF traced
                THEN /\ failed' = IF raised THEN failed \cup {src} ELSE failed
                     /\ yielded' = yielded \cup DOMAIN festivals
                     /\ expected' = IF raised THEN expected
                                    ELSE FirstSeenLongest(outcome.body.components, 1, expected)
                ELSE UNCHANGED <<failed, yielded, expected>>
             /\ IF festivals # EmptyMap
                THEN /\ all_festivals' = MergeFestivals(all_festivals, festivals)
                     /\ successful_fetches' = successful_fetches + 1
                ELSE UNCHANGED <<all_festivals, successful_fetches>>
             /\ pc' = AfterSource(raised)
             /\ src' = src + 1
    /\ UNCHANGED <<filterVars, now, fileVars, festivals_cache, caller, result, observed,
                   usedFallback, cacheAtStart, lastFetchAt, last, lastRaw, lastParsed>>

\* line 110-112: the dict the round stores and returns
\* the fallback taken only when every source raised
RoundResultOnFailure ==
    IF failed = 1..NumSources THEN create_minimal_fallback_database(now) ELSE all_festivals

RoundResult ==
    IF successful_fetches = 0 THEN create_minimal_fallback_database(now) ELSE all_festivals

\* lines 110-124, and the return into the entry point that asked
StoreAndReturn ==
    /\ pc = "storing"
    /\ LET stored == RoundResult
       IN  /\ \E outcome \in SaveOutcomes :
                /\ jsonFile' = SavedJson(stored, outcome)
                /\ metaFile' = SavedMeta(stored, outcome)
           /\ icsFile' = SavedIcs(stored)
           /\ IF caller.op = "get"
              THEN /\ festivals_cache' = stored
                   /\ result' = RangeResult(stored, caller.start_date, caller.end_date)
              ELSE /\ result' = stored
                   /\ UNCHANGED festivals_cache
    /\ usedFallback' = (successful_fetches = 0)
    /\ lastFetchAt' = now
    /\ pc' = "idle"
    /\ observed' = EmptyMap
    /\ cacheAtStart' = EmptyMap
    /\ src' = 1
    /\ all_festivals' = EmptyMap
    /\ successful_fetches' = 0
    /\ UNCHANGED <<filterVars, now, caller, attempted, failed, yielded, expected,
                   lastRaw, lastParsed, last>>

\* another reader of the same object looks at self.festivals_cache while the
\* session's call is at the feeds
ReadCache ==
    /\ pc # "idle"
    /\ observed' = festivals_cache
    /\ UNCHANGED <<filterVars, now, fileVars, festivals_cache, pc, caller, roundVars,
                   result, cacheAtStart, lastFetchAt, last>>

\* lines 18-25: a new session constructs the object over the same data directory
Restart ==
    /\ pc = "idle"
    /\ festivals_cache' = EmptyMap
    /\ caller' = Caller("none", NoArg, NoArg)
    /\ UNCHANGED <<filterVars, now, fileVars, pc, roundVars, result, observed,
                   cacheAtStart, lastFetchAt, last>>

MaxSmallTicks == 2

JumpTicks == StaleDays * TicksPerDay

\* The clock.  It stands at the epoch, jumps by the length of the staleness
\* window, and then moves on tick by tick.  When it moves the session has
\* dropped the value the last call returned.
Elapse(t) ==
    /\ pc = "idle"
    /\ now' = t
    /\ result' = EmptyMap
    /\ caller' = Caller("none", NoArg, NoArg)
    /\ last' = Brief(last)
    /\ UNCHANGED <<filterVars, fileVars, festivals_cache, roundVars, pc, observed,
                   cacheAtStart, lastFetchAt>>

TickSmall ==
    /\ now >= JumpTicks
    /\ now < JumpTicks + MaxSmallTicks
    /\ Elapse(now + 1)

TickJump ==
    /\ now < JumpTicks
    /\ Elapse(now + JumpTicks)

RangeChoices ==
    { <<DateTime(2026, 1, 1, 0), DateTime(2026, 12, 31, 0)>>,
      <<DateTime(2026, 3, 8, 0), DateTime(2026, 3, 8, 0)>> }

InitRepo ==
    /\ now = 0
    /\ pc = "idle"
    /\ metaFile = NoMeta
    /\ jsonFile = NoJson
    /\ icsFile = NoIcs
    /\ festivals_cache = EmptyMap
    /\ caller = Caller("none", NoArg, NoArg)
    /\ src = 1
    /\ all_festivals = EmptyMap
    /\ successful_fetches = 0
    /\ result = EmptyMap
    /\ observed = EmptyMap
    /\ attempted = {}
    /\ failed = {}
    /\ yielded = {}
    /\ expected = EmptyMap
    /\ usedFallback = FALSE
    /\ cacheAtStart = EmptyMap
    /\ lastFetchAt = -1
    /\ last = NoCall

\* no analysis call has been made
NoArgs == [op |-> "none"]

NoAnalysis == [kind |-> "none", value |-> <<>>, summary |-> <<>>]

InitFilterIdle ==
    /\ title = ""
    /\ verdict = "unset"
    /\ args = NoArgs
    /\ analysis = NoAnalysis

InitParseIdle ==
    /\ lastRaw = Answer(Unparsable)
    /\ lastParsed = EmptyMap

Init == InitRepo /\ InitFilterIdle /\ InitParseIdle

Next ==
    \/ \E force_refresh \in BOOLEAN : InitializeFestivalDatabase(force_refresh)
    \/ ForceRefreshDatabase
    \/ \E r \in RangeChoices : GetFestivalsInRange(r[1], r[2])
    \/ FetchSource(TinyOutcomes, FALSE)
    \/ StoreAndReturn
    \/ ReadCache
    \/ Restart
    \/ TickSmall
    \/ TickJump

Spec == Init /\ [][Next]_vars

\* ------------------------------------------- SpecFilter: the filter alone

TitleWords == {"Diwali", "DIWALI", "Awareness", "Day", "Independence", "Lunch"}

MaxWords == 3

RECURSIVE JoinWords(_)
JoinWords(ws) ==
    IF Len(ws) = 0 THEN ""
    ELSE IF Len(ws) = 1 THEN ws[1]
    ELSE ws[1] \o " " \o JoinWords(Tail(ws))

Titles == {JoinWords(ws) : ws \in UNION {[1..k -> TitleWords] : k \in 0..MaxWords}}

InitFilter ==
    /\ InitRepo
    /\ InitParseIdle
    /\ title \in Titles
    /\ verdict = "unset"
    /\ args = NoArgs
    /\ analysis = NoAnalysis

ApplyFilter ==
    /\ verdict = "unset"
    /\ verdict' = IF is_likely_festival(title) THEN "accept" ELSE "reject"
    /\ UNCHANGED <<title, args, analysis, now, fileVars, festivals_cache, pc, caller,
                   roundVars, result, observed, cacheAtStart, lastFetchAt, last>>

SpecFilter == InitFilter /\ [][ApplyFilter]_vars

\* ---------------------------------------- SpecParse: one response parsed

InitParse ==
    /\ now = 0
    /\ pc = "unparsed"
    /\ metaFile = NoMeta
    /\ jsonFile = NoJson
    /\ icsFile = NoIcs
    /\ festivals_cache = EmptyMap
    /\ caller = Caller("none", NoArg, NoArg)
    /\ src = 1
    /\ all_festivals = EmptyMap
    /\ successful_fetches = 0
    /\ result = EmptyMap
    /\ observed = EmptyMap
    /\ attempted = {}
    /\ failed = {}
    /\ yielded = {}
    /\ expected = EmptyMap
    /\ usedFallback = FALSE
    /\ cacheAtStart = EmptyMap
    /\ lastFetchAt = -1
    /\ last = NoCall
    /\ InitFilterIdle
    /\ lastRaw \in RichOutcomes \ {Unreachable}
    /\ lastParsed = EmptyMap

ParseIcsContent ==
    /\ pc = "unparsed"
    /\ pc' = "parsed"
    /\ lastParsed' = parse_ics_content(lastRaw.body)
    /\ UNCHANGED <<filterVars, now, fileVars, festivals_cache, caller, src, all_festivals,
                   successful_fetches, attempted, failed, yielded, expected, lastRaw,
                   usedFallback, result, observed, cacheAtStart, lastFetchAt, last>>

SpecParse == InitParse /\ [][ParseIcsContent]_vars

\* ------------------------- SpecFetch: one fetch round over arbitrary feeds

NextFetch ==
    \/ ~last.valid /\ ForceRefreshDatabase
    \/ FetchSource(RichOutcomes, TRUE)
    \/ StoreAndReturn

SpecFetch == Init /\ [][NextFetch]_vars

\* ------------------------ SpecRange: range queries over a fetched calendar

EvSankranti == Component("VEVENT", "Makar Sankranti", DtStartDate(2026, 1, 14), NoValue)

EvHoliUtc == Component("VEVENT", "Holi", DtStartDateTimeUtc(2026, 3, 8, 18), NoValue)

RangeEvents == {EvSankranti, EvHoli, EvHoliUtc, EvDiwali}

\* the outcomes of one source in SpecRange
RangeOutcomes == {Answer(IcsText(<<e>>)) : e \in RangeEvents}

\* the bounds a caller asks with: naive datetimes
RangeBounds ==
    { DateTime(2026, 1, 1, 0), DateTime(2026, 3, 8, 0), DateTime(2026, 3, 8, 18),
      DateTime(2026, 12, 31, 0) }

NextRange ==
    \/ \E start_date, end_date \in RangeBounds : GetFestivalsInRange(start_date, end_date)
    \/ FetchSource(RangeOutcomes, FALSE)
    \/ StoreAndReturn

SpecRange == Init /\ [][NextRange]_vars

\* ------------------------------------------------------- numbers and dates

\* A float is modelled by the exact fraction it approximates: n / d, d > 0.
Abs(x) == IF x < 0 THEN -x ELSE x

RECURSIVE GCD(_, _)
GCD(a, b) == IF b = 0 THEN a ELSE GCD(b, a % b)

Frac(n, d) ==
    LET g == GCD(Abs(n), d) IN [n |-> n \div g, d |-> d \div g]

Whole(k) == [n |-> k, d |-> 1]

FracGE(a, b) == a.n * b.d >= b.n * a.d

\* a / b for b > 0
FracDiv(a, b) == Frac(a.n * b.d, a.d * b.n)

\* round(x, digits) for x >= 0, in units of 1/scale, halves to the even side
RoundTo(x, scale) ==
    LET q == (x.n * scale) \div x.d
        r == (x.n * scale) % x.d
    IN  IF 2 * r > x.d THEN q + 1
        ELSE IF 2 * r = x.d THEN q + (q % 2)
        ELSE q

DaysBeforeMonth == <<0, 31, 59, 90, 120, 151, 181, 212, 243, 273, 304, 334, 365>>

\* datetime.date() as a day number: 1 is the first of January of EpochYear
ToDate(dt) == (dt.y - EpochYear) * DaysPerYear + DaysBeforeMonth[dt.m] + dt.d

\* the datetime at midnight of a day number
FromDate(date) ==
    LET y   == EpochYear + ((date - 1) \div DaysPerYear)
        doy == ((date - 1) % DaysPerYear) + 1
        m   == CHOOSE k \in 1..12 : DaysBeforeMonth[k] < doy /\ doy <= DaysBeforeMonth[k + 1]
    IN  DateTime(y, m, doy - DaysBeforeMonth[m], 0)

SetMin(S) == CHOOSE x \in S : \A y \in S : x <= y

SetMax(S) == CHOOSE x \in S : \A y \in S : x >= y

RECURSIVE SumOver(_, _)
SumOver(f, S) ==
    IF S = {} THEN 0
    ELSE LET x == CHOOSE y \in S : TRUE IN f[x] + SumOver(f, S \ {x})

\* Series.mean() over the index values S, S not empty
MeanOver(f, S) == Frac(SumOver(f, S), Cardinality(S))

RECURSIVE SumSeq(_)
SumSeq(s) == IF s = <<>> THEN 0 ELSE Head(s) + SumSeq(Tail(s))

MaxSeq(s) == SetMax({s[i] : i \in 1..Len(s)})

\* list.sort(key, reverse=True) and sorted(..., reverse=True): stable, so an
\* element stands behind those of a greater key and behind the earlier ones
\* of an equal key; ge[i][j] tells whether the key of s[i] is at least that
\* of s[j]
SortDesc(s, ge) ==
    LET Place(i) == 1 + Cardinality({j \in 1..Len(s) : ~ge[i][j]})
                      + Cardinality({j \in 1..(i - 1) : ge[i][j] /\ ge[j][i]})
    IN  [p \in 1..Len(s) |-> s[CHOOSE i \in 1..Len(s) : Place(i) = p]]

\* ------------------------------------------------------- impact classifier

\* The call frame is kept as its rows per day: call_data.daily[d] rows carry a
\* call_ts on day d.  The festivals dict is kept as the sequence of its items
\* in insertion order, each item carrying its key.

\* call_data.empty
FrameEmpty(call_data) == \A d \in DOMAIN call_data.daily : call_data.daily[d] = 0

\* the daily counts with a zero for a day that has no row
DailyCallsWithEmptyDays(call_data) ==
    [d \in DOMAIN call_data.daily |-> call_data.daily[d]]

\* lines 389-391: call_data.groupby('date').size()
DailyCalls(call_data) ==
    [d \in {x \in DOMAIN call_data.daily : call_data.daily[x] > 0} |-> call_data.daily[d]]

\* the candidates taken as they come, in the data range or not
FestivalsInDataRangeAll(festivals, data_start, data_end) == festivals

\* lines 398-402
FestivalsInDataRange(festivals, data_start, data_end) ==
    SelectSeq(festivals, LAMBDA f : data_start <= ToDate(f.date) /\ ToDate(f.date) <= data_end)

\* for delta in [-1, 0, 1]
WindowDays(festival_date) == <<festival_date - 1, festival_date, festival_date + 1>>

\* the festival periods taken as the festival days alone
FestivalDatesDayOnly(festivals_in_range, data_start, data_end) ==
    { d \in {ToDate(festivals_in_range[i].date) : i \in 1..Len(festivals_in_range)} :
        data_start <= d /\ d <= data_end }

\* lines 411-420
FestivalDates(festivals_in_range, data_start, data_end) ==
    { d \in UNION { {WindowDays(ToDate(festivals_in_range[i].date))[j] : j \in 1..3}
                      : i \in 1..Len(festivals_in_range) } :
        data_start <= d /\ d <= data_end }

\* the baseline taken from the days outside the windows alone, zero when
\* there is none
BaselineCallsNoFallback(daily_calls, festival_dates) ==
    LET non_festival_dates == (DOMAIN daily_calls) \ festival_dates
    IN  IF non_festival_dates # {}
        THEN MeanOver(daily_calls, non_festival_dates)
        ELSE Whole(0)

\* lines 423-427
BaselineCalls(daily_calls, festival_dates) ==
    LET non_festival_dates == (DOMAIN daily_calls) \ festival_dates
    IN  IF non_festival_dates # {}
        THEN MeanOver(daily_calls, non_festival_dates)
        ELSE MeanOver(daily_calls, DOMAIN daily_calls)

\* the festival's calls taken from the festival day alone
PeriodCallsDayOnly(daily_calls, festival_date) ==
    IF festival_date \in DOMAIN daily_calls THEN <<daily_calls[festival_date]>> ELSE <<>>

\* the festival's calls with an absent day counted as zero
PeriodCallsZeroFilled(daily_calls, festival_date) ==
    [i \in 1..3 |-> IF WindowDays(festival_date)[i] \in DOMAIN daily_calls
                    THEN daily_calls[WindowDays(festival_date)[i]] ELSE 0]

\* lines 440-444
PeriodCalls(daily_calls, festival_date) ==
    LET present == SelectSeq(WindowDays(festival_date), LAMBDA d : d \in DOMAIN daily_calls)
    IN  [i \in 1..Len(present) |-> daily_calls[present[i]]]

\* the entry with the two ratios divided out whatever the baseline: a float
\* division by zero gives inf
AnalysisOfUnguarded(festival_info, period_calls, baseline_calls) ==
    LET avg_festival_calls == Frac(SumSeq(period_calls), Len(period_calls))
        max_festival_calls == MaxSeq(period_calls)
    IN  [ key       |-> festival_info.key,
          name      |-> festival_info.name,
          date      |-> ToDate(festival_info.date),
          avg_calls |-> avg_festival_calls,
          max_calls |-> max_festival_calls,
          impact_ratio |->
              IF baseline_calls.n # 0 THEN FracDiv(avg_festival_calls, baseline_calls)
              ELSE [n |-> 1, d |-> 0],
          max_impact_ratio |->
              IF baseline_calls.n # 0 THEN FracDiv(Whole(max_festival_calls), baseline_calls)
              ELSE [n |-> 1, d |-> 0],
          baseline  |-> baseline_calls ]

\* lines 447-463: one entry of festival_analysis
AnalysisOf(festival_info, period_calls, baseline_calls) ==
    LET avg_festival_calls == Frac(SumSeq(period_calls), Len(period_calls))
        max_festival_calls == MaxSeq(period_calls)
    IN  [ key       |-> festival_info.key,
          name      |-> festival_info.name,
          date      |-> ToDate(festival_info.date),
          avg_calls |-> avg_festival_calls,
          max_calls |-> max_festival_calls,
          impact_ratio |->
              IF baseline_calls.n > 0 THEN FracDiv(avg_festival_calls, baseline_calls)
              ELSE Whole(1),
          max_impact_ratio |->
              IF baseline_calls.n > 0 THEN FracDiv(Whole(max_festival_calls), baseline_calls)
              ELSE Whole(1),
          baseline  |-> baseline_calls ]

\* lines 492-499
categorize_impact(impact_ratio) ==
    IF FracGE(impact_ratio, Whole(2)) THEN "high"
    ELSE IF FracGE(impact_ratio, Frac(3, 2)) THEN "moderate"
    ELSE "low"

\* the ratio test alone
PassesThresholdsRatioOnly(entry, impact_threshold, min_calls_threshold) ==
    FracGE(entry.impact_ratio, impact_threshold)

\* lines 466-467
PassesThresholds(entry, impact_threshold, min_calls_threshold) ==
    /\ FracGE(entry.impact_ratio, impact_threshold)
    /\ FracGE(entry.avg_calls, Whole(min_calls_threshold))

\* lines 470-478: the copy of the festival record with the impact metrics;
\* impact_ratio and max_impact_ratio in hundredths, the call figures in tenths
ImpactRecord(festival_info, entry) ==
    [ key              |-> festival_info.key,
      name             |-> festival_info.name,
      date             |-> festival_info.date,
      description      |-> festival_info.description,
      source           |-> festival_info.source,
      impact_ratio     |-> RoundTo(entry.impact_ratio, 100),
      max_impact_ratio |-> RoundTo(entry.max_impact_ratio, 100),
      avg_calls_during |-> RoundTo(entry.avg_calls, 10),
      max_calls_during |-> entry.max_calls,
      baseline_calls   |-> RoundTo(entry.baseline, 10),
      impact_category  |-> categorize_impact(entry.impact_ratio) ]

\* lines 501-522: what the summary shows, in the order it shows it
show_festival_analysis_summary(festival_analysis, threshold) ==
    LET n == Len(festival_analysis)
        sorted == SortDesc(festival_analysis,
                      [i \in 1..n |-> [j \in 1..n |->
                          FracGE(festival_analysis[i].impact_ratio,
                                 festival_analysis[j].impact_ratio)]])
    IN  [ i \in 1..Len(sorted) |->
            [ key |-> sorted[i].key, name |-> sorted[i].name,
              status |-> IF FracGE(sorted[i].impact_ratio, threshold)
                         THEN "Included" ELSE "Filtered out" ] ]

Returned(value, summary) == [kind |-> "returned", value |-> value, summary |-> summary]

filter_festivals_by_crime_impact(festivals, call_data, impact_threshold, min_calls_threshold) ==
    IF FrameEmpty(call_data) \/ ~call_data.has_call_ts THEN Returned(<<>>, <<>>)
    ELSE
    LET daily_calls == DailyCalls(call_data)
        data_start  == SetMin(DOMAIN daily_calls)
        data_end    == SetMax(DOMAIN daily_calls)
        festivals_in_range == FestivalsInDataRange(festivals, data_start, data_end)
    IN  IF festivals_in_range = <<>> THEN Returned(<<>>, <<>>)
        ELSE
        LET baseline_calls ==
                BaselineCalls(daily_calls,
                              FestivalDates(festivals_in_range, data_start, data_end))
            analysed == SelectSeq(festivals_in_range,
                            LAMBDA f : PeriodCalls(daily_calls, ToDate(f.date)) # <<>>)
            festival_analysis ==
                [ i \in 1..Len(analysed) |->
                    AnalysisOf(analysed[i],
                               PeriodCalls(daily_calls, ToDate(analysed[i].date)),
                               baseline_calls) ]
            kept == SelectSeq([i \in 1..Len(analysed) |-> i],
                        LAMBDA i : PassesThresholds(festival_analysis[i], impact_threshold,
                                                    min_calls_threshold))
            impactful_festivals ==
                [ j \in 1..Len(kept) |->
                    ImpactRecord(analysed[kept[j]], festival_analysis[kept[j]]) ]
        IN  Returned(impactful_festivals,
                     show_festival_analysis_summary(festival_analysis, impact_threshold))

\* ---------------------------------------------------------- top-N selection

\* The frame df is kept as its rows per day and category as written:
\* df.cells[<<date, category>>] rows, and the dtype of its date column.

\* df.empty
DfEmpty(df) == \A c \in DOMAIN df.cells : df.cells[c] = 0

\* line 27: df['date'] = pd.to_datetime(df['date']) rewrites the caller's frame
DfAfter(festivals_in_range, df) ==
    IF DfEmpty(df) \/ festivals_in_range = <<>> THEN df
    ELSE [df EXCEPT !.date_dtype = "datetime64[ns]"]

\* line 30, grouped by date: the days that have a row of the category
CategoryDaily(df, category) ==
    LET matching == {c \in DOMAIN df.cells : Lower(c[2]) = Lower(category) /\ df.cells[c] > 0}
    IN  [d \in {c[1] : c \in matching} |->
            SumOver(df.cells, {c \in matching : c[1] = d})]

NaN == [nan |-> TRUE, n |-> 0, d |-> 1]

Number(x) == [nan |-> FALSE, n |-> x.n, d |-> x.d]

\* lines 37-62: the statistics of one festival (name, fs, fe)
FestivalStats(festival, cat_daily) ==
    LET festival_days == festival[2]..festival[3]
        fest_days     == (DOMAIN cat_daily) \cap festival_days
        max_day_count == SetMax({cat_daily[d] : d \in fest_days})
        max_day       == SetMin({d \in fest_days : cat_daily[d] = max_day_count})
        other_days    == (DOMAIN cat_daily) \ festival_days
        baseline_avg  == IF other_days = {} THEN NaN
                         ELSE Number(MeanOver(cat_daily, other_days))
    IN  [ name         |-> festival[1],
          max_day      |-> strftime_ymd(FromDate(max_day)),
          max_count    |-> max_day_count,
          baseline_avg |-> baseline_avg,
          max_pct      |-> IF baseline_avg.nan \/ baseline_avg.n = 0 THEN Whole(100)
                           ELSE Frac((max_day_count * baseline_avg.d - baseline_avg.n) * 100,
                                     baseline_avg.n) ]

\* lines 35-69 once the category has rows
TopFestivals(festivals_in_range, cat_daily, top_n) ==
    LET with_calls == SelectSeq(festivals_in_range,
                          LAMBDA f : (DOMAIN cat_daily) \cap (f[2]..f[3]) # {})
        festival_crime_stats ==
            [i \in 1..Len(with_calls) |-> FestivalStats(with_calls[i], cat_daily)]
        n == Len(festival_crime_stats)
        sorted_festivals ==
            SortDesc(festival_crime_stats,
                [i \in 1..n |-> [j \in 1..n |->
                    festival_crime_stats[i].max_count >= festival_crime_stats[j].max_count]])
    IN  SubSeq(sorted_festivals, 1, IF top_n < Len(sorted_festivals) THEN top_n
                                    ELSE Len(sorted_festivals))

\* the selection with the empty category treated as an error
filter_significant_festivals_raising(festivals_in_range, df, category, top_n) ==
    IF DfEmpty(df) \/ festivals_in_range = <<>> THEN Returned(<<>>, <<>>)
    ELSE IF DOMAIN CategoryDaily(df, category) = {}
    THEN [kind |-> "raised", value |-> <<>>, summary |-> <<>>]
    ELSE Returned(TopFestivals(festivals_in_range, CategoryDaily(df, category), top_n), <<>>)

filter_significant_festivals(festivals_in_range, df, category, top_n) ==
    IF DfEmpty(df) \/ festivals_in_range = <<>> THEN Returned(<<>>, <<>>)
    ELSE IF DOMAIN CategoryDaily(df, category) = {} THEN Returned(<<>>, <<>>)
    ELSE Returned(TopFestivals(festivals_in_range, CategoryDaily(df, category), top_n), <<>>)

\* ----------------------------------------- SpecAnalysis: the two analyses

MaxCalls == 2

Jan(d) == ToDate(DateTime(EpochYear, 1, d, 0))

DataDays == {Jan(12), Jan(14), Jan(15), Jan(16), Jan(17)}

FestivalItem(key, name, date) ==
    [key |-> key, name |-> name, date |-> date, description |-> "", source |-> "ics_import"]

FestSankranti == FestivalItem("2026-01-15", "Makar Sankranti", DateTime(EpochYear, 1, 15, 0))

FestPongal == FestivalItem("2026-01-17", "Pongal", DateTime(EpochYear, 1, 17, 18))

FestLohri == FestivalItem("2026-01-13", "Lohri", DateTime(EpochYear, 1, 13, 0))

FestivalLists ==
    { <<>>, <<FestSankranti>>, <<FestPongal>>,
      <<FestSankranti, FestPongal>>, <<FestPongal, FestSankranti>>,
      <<FestLohri, FestPongal>> }

DefaultThresholds == [impact_threshold |-> Frac(13, 10), min_calls_threshold |-> 3]

LowThresholds == [impact_threshold |-> Whole(1), min_calls_threshold |-> 1]

SparseThresholds == [impact_threshold |-> Frac(13, 10), min_calls_threshold |-> 2]

ClassifyArgs(festivals, call_data, thresholds) ==
    [ op |-> "classify", festivals |-> festivals, call_data |-> call_data,
      impact_threshold |-> thresholds.impact_threshold,
      min_calls_threshold |-> thresholds.min_calls_threshold ]

SmallClassifyInputs ==
    { ClassifyArgs(festivals, [has_call_ts |-> TRUE, daily |-> daily], thresholds) :
        festivals \in FestivalLists,
        daily \in [DataDays -> 0..MaxCalls],
        thresholds \in {DefaultThresholds, LowThresholds, SparseThresholds} }
    \cup
    { ClassifyArgs(<<FestSankranti>>,
                   [has_call_ts |-> FALSE, daily |-> [d \in DataDays |-> 1]],
                   DefaultThresholds) }

\* the end-to-end scenario: 30 consecutive days of 5 calls, 20 on January 15,
\* which is the only candidate festival
Scenario == [days |-> 30, flat |-> 5, spike |-> 20, festival |-> FestSankranti]

ScenarioData(first_day) ==
    [ has_call_ts |-> TRUE,
      daily |-> [d \in first_day..(first_day + Scenario.days - 1) |->
                    IF d = ToDate(Scenario.festival.date) THEN Scenario.spike
                    ELSE Scenario.flat] ]

ScenarioInputs ==
    { ClassifyArgs(<<Scenario.festival>>, ScenarioData(first_day), DefaultThresholds) :
        first_day \in {Jan(1), Jan(2), Jan(15)} }

\* one day of 10 calls outside the festival window, and the festival day
\* alone inside it
BaselineTenData(festival_calls) ==
    [ has_call_ts |-> TRUE,
      daily |-> [d \in {Jan(12), Jan(15)} |-> IF d = Jan(12) THEN 10 ELSE festival_calls] ]

\* a day of 100 calls outside the window and 199, 200, 200 calls inside it:
\* the ratio 599/300 lies just below 2
NearTwoData ==
    [ has_call_ts |-> TRUE,
      daily |-> [d \in {Jan(12), Jan(14), Jan(15), Jan(16)} |->
                    IF d = Jan(12) THEN 100 ELSE IF d = Jan(14) THEN 199 ELSE 200] ]

ThresholdInputs ==
    { ClassifyArgs(<<FestSankranti>>, BaselineTenData(festival_calls), DefaultThresholds) :
        festival_calls \in {11, 15, 20} }
    \cup { ClassifyArgs(<<FestSankranti>>, NearTwoData, DefaultThresholds) }

\* frames whose rows carry a category column: call_data.rows[<<d, c>>] of the
\* call_data.daily[d] rows of day d have category c
ClassifyCells == {<<Jan(12), "Crime">>, <<Jan(15), "crime">>,
                  <<Jan(12), "medical">>, <<Jan(15), "medical">>}

CategoryFrame(rows) ==
    [ has_call_ts |-> TRUE,
      daily |-> [d \in {c[1] : c \in DOMAIN rows} |->
                    SumOver(rows, {c \in DOMAIN rows : c[1] = d})],
      rows  |-> rows ]

CategoryInputs ==
    { ClassifyArgs(<<FestSankranti>>, CategoryFrame(rows), LowThresholds) :
        rows \in [ClassifyCells -> 0..MaxCalls] }

TopNCells == {<<Jan(14), "Crime">>, <<Jan(15), "Crime">>, <<Jan(16), "crime">>,
              <<Jan(15), "medical">>}

FestivalRanges ==
    LET a == <<"Makar Sankranti", Jan(14), Jan(15)>>
        b == <<"Pongal", Jan(16), Jan(16)>>
    IN  {<<>>, <<a>>, <<b>>, <<a, b>>, <<b, a>>}

TopNInputs ==
    { [ op |-> "top_n", festivals_in_range |-> festivals_in_range,
        df |-> [date_dtype |-> "object", cells |-> cells],
        category |-> category, top_n |-> top_n ] :
        festivals_in_range \in FestivalRanges,
        cells \in [TopNCells -> 0..MaxCalls],
        category \in {"crime", "MEDICAL", "fire"},
        top_n \in 1..2 }

InitAnalysis ==
    /\ InitRepo
    /\ title = ""
    /\ verdict = "unset"
    /\ InitParseIdle
    /\ args \in SmallClassifyInputs \cup ScenarioInputs \cup ThresholdInputs
                    \cup CategoryInputs \cup TopNInputs
    /\ analysis = NoAnalysis

repoVars == <<now, fileVars, festivals_cache, pc, caller, roundVars, result, observed,
              cacheAtStart, lastFetchAt, last>>

\* the session runs the impact classifier on the frame and the candidates
FilterFestivalsByCrimeImpact ==
    /\ analysis.kind = "none"
    /\ args.op = "classify"
    /\ analysis' = filter_festivals_by_crime_impact(args.festivals, args.call_data,
                        args.impact_threshold, args.min_calls_threshold)
    /\ UNCHANGED <<title, verdict, args, repoVars>>

\* the session runs the top-N selection
FilterSignificantFestivals ==
    /\ analysis.kind = "none"
    /\ args.op = "top_n"
    /\ analysis' = filter_significant_festivals(args.festivals_in_range, args.df,
                                                args.category, args.top_n)
    /\ args' = [args EXCEPT !.df = DfAfter(args.festivals_in_range, args.df)]
    /\ UNCHANGED <<title, verdict, repoVars>>

NextAnalysis ==
    \/ FilterFestivalsByCrimeImpact
    \/ FilterSignificantFestivals

SpecAnalysis == InitAnalysis /\ [][NextAnalysis]_vars

\* ------------------------- SpecRatio: the ratio computation on its own
\* Lines 446-463 taken as a function of the festival's calls and of the
\* baseline, the baseline ranging over zero as well.

MaxBaselineParts == 3

PeriodCallLists == UNION {[1..k -> 1..MaxCalls] : k \in 1..3}

Baselines == {Frac(n, d) : n \in 0..MaxBaselineParts, d \in 1..MaxBaselineParts}

RatioInputs ==
    { [ op |-> "assess", festival_info |-> FestSankranti,
        period_calls |-> period_calls, baseline_calls |-> baseline_calls ] :
        period_calls \in PeriodCallLists, baseline_calls \in Baselines }

InitRatio ==
    /\ InitRepo
    /\ title = ""
    /\ verdict = "unset"
    /\ InitParseIdle
    /\ args \in RatioInputs
    /\ analysis = NoAnalysis

AssessFestival ==
    /\ analysis.kind = "none"
    /\ args.op = "assess"
    /\ analysis' = Returned(<<AnalysisOf(args.festival_info, args.period_calls,
                                         args.baseline_calls)>>, <<>>)
    /\ UNCHANGED <<title, verdict, args, repoVars>>

SpecRatio == InitRatio /\ [][AssessFestival]_vars

\* ------------------------------------- SpecDashboard: the aggregations
\* The dashboard (src/app.py) imports agg_calls_by_hour from modules.analysis;
\* src/analysis.py holds a second function of the same name.  The frame df is
\* kept as its rows per day and hour, df.rows[<<date, hour>>], and whether it
\* has the hour column.

HoursPerDay == 24

AllHours == [i \in 1..HoursPerDay |-> i - 1]

\* df.empty
HourFrameEmpty(df) == \A c \in DOMAIN df.rows : df.rows[c] = 0

\* df.groupby(hour_col).size(): the hours that have a row, with their counts
HourSizes(df) ==
    LET present == {c \in DOMAIN df.rows : df.rows[c] > 0}
    IN  [h \in {c[2] : c \in present} |-> SumOver(df.rows, {c \in present : c[2] = h})]

\* .reset_index(name='count'): one row per group, the keys ascending
ResetIndex(sizes) ==
    LET keys == SelectSeq(AllHours, LAMBDA h : h \in DOMAIN sizes)
    IN  [i \in 1..Len(keys) |-> [hour |-> keys[i], count |-> sizes[keys[i]]]]

\* src/modules/analysis.py lines 10-14
modules_analysis_agg_calls_by_hour(df) ==
    IF HourFrameEmpty(df) \/ ~df.has_hour THEN Returned(<<>>, <<>>)
    ELSE Returned(ResetIndex(HourSizes(df)), <<>>)

\* src/analysis.py lines 10-17: groupby raises KeyError without the column
analysis_agg_calls_by_hour(df) ==
    IF ~df.has_hour THEN [kind |-> "raised", value |-> <<>>, summary |-> <<>>]
    ELSE LET sizes == HourSizes(df)
         IN  Returned([i \in 1..HoursPerDay |->
                          [hour  |-> AllHours[i],
                           count |-> IF AllHours[i] \in DOMAIN sizes
                                     THEN sizes[AllHours[i]] ELSE 0]], <<>>)

HourCells == {<<Jan(14), 5>>, <<Jan(14), 20>>, <<Jan(16), 5>>, <<Jan(16), 0>>, <<Jan(17), 23>>}

ByHourInputs ==
    { [ op |-> "by_hour", module |-> module,
        df |-> [has_hour |-> has_hour, rows |-> rows] ] :
        module \in {"modules.analysis", "analysis"},
        has_hour \in BOOLEAN,
        rows \in [HourCells -> 0..MaxCalls] }

\* len(df)
TotalCalls(df) == SumOver(df.rows, DOMAIN df.rows)

\* the values of the date column
DatesPresent(df) == {c[1] : c \in {x \in DOMAIN df.rows : df.rows[x] > 0}}

\* df["hour"].mode()[0]: the most frequent hour, the smallest of them on a tie
PeakHour(df) ==
    LET sizes == HourSizes(df)
        most  == SetMax({sizes[h] : h \in DOMAIN sizes})
    IN  SetMin({h \in DOMAIN sizes : sizes[h] = most})

\* f"{int(h):02d}:00 - {int(h)+1:02d}:00"
PeakHourLabel(h) == Pad2(h) \o ":00 - " \o Pad2(h + 1) \o ":00"

\* src/modules/analysis.py lines 22-51; avg_per_day is round(total / days),
\* a whole number
modules_analysis_compute_kpis(df) ==
    IF HourFrameEmpty(df)
    THEN Returned([total_calls |-> 0, avg_per_day |-> Whole(0), peak_hour |-> "N/A"], <<>>)
    ELSE Returned(
           [ total_calls |-> TotalCalls(df),
             avg_per_day |->
                 IF df.has_date
                 THEN Whole(RoundTo(Frac(TotalCalls(df), Cardinality(DatesPresent(df))), 1))
                 ELSE Whole(0),
             peak_hour   |-> IF df.has_hour THEN PeakHourLabel(PeakHour(df)) ELSE "N/A" ],
           <<>>)

\* src/analysis.py lines 26-41; avg_per_day is total / span of days rounded to
\* two decimals, None when the span cannot be taken
analysis_compute_kpis(df) ==
    LET days == SetMax(DatesPresent(df)) - SetMin(DatesPresent(df)) + 1
    IN  Returned(
          [ total_calls |-> TotalCalls(df),
            avg_per_day |->
                IF HourFrameEmpty(df) \/ ~df.has_date THEN "None"
                ELSE Frac(RoundTo(Frac(TotalCalls(df), SetMax({days, 1})), 100), 100),
            with_coords_pct |-> "None" ],
          <<>>)

KpiInputs ==
    { [ op |-> "kpis", module |-> module,
        df |-> [has_date |-> has_date, has_hour |-> TRUE, rows |-> rows] ] :
        module \in {"modules.analysis", "analysis"},
        has_date \in BOOLEAN,
        rows \in [HourCells -> 0..MaxCalls] }

InitDashboard ==
    /\ InitRepo
    /\ title = ""
    /\ verdict = "unset"
    /\ InitParseIdle
    /\ args \in ByHourInputs \cup KpiInputs
    /\ analysis = NoAnalysis

\* src/app.py line 84: the dashboard's hourly distribution
AggCallsByHour ==
    /\ analysis.kind = "none"
    /\ args.op = "by_hour"
    /\ args.module = "modules.analysis"
    /\ analysis' = modules_analysis_agg_calls_by_hour(args.df)
    /\ UNCHANGED <<title, verdict, args, repoVars>>

\* a caller of src/analysis.py
TopLevelAggCallsByHour ==
    /\ analysis.kind = "none"
    /\ args.op = "by_hour"
    /\ args.module = "analysis"
    /\ analysis' = analysis_agg_calls_by_hour(args.df)
    /\ UNCHANGED <<title, verdict, args, repoVars>>

\* src/app.py line 64: the dashboard's KPIs
ComputeKpis ==
    /\ analysis.kind = "none"
    /\ args.op = "kpis"
    /\ args.module = "modules.analysis"
    /\ analysis' = modules_analysis_compute_kpis(args.df)
    /\ UNCHANGED <<title, verdict, args, repoVars>>

\* a caller of src/analysis.py
TopLevelComputeKpis ==
    /\ analysis.kind = "none"
    /\ args.op = "kpis"
    /\ args.module = "analysis"
    /\ analysis' = analysis_compute_kpis(args.df)
    /\ UNCHANGED <<title, verdict, args, repoVars>>

NextDashboard ==
    \/ AggCallsByHour
    \/ TopLevelAggCallsByHour
    \/ ComputeKpis
    \/ TopLevelComputeKpis

SpecDashboard == InitDashboard /\ [][NextDashboard]_vars

\* ------------------------------------------------------------------ claims

RoundDone == pc = "idle" /\ last.valid

\* C1 as stated: of the accepted events of a date, whether they come from one
\* feed or from several, a refresh keeps the one with the strictly longer
\* description, and on a tie the one seen first.
C1_DedupAsStated ==
    (RoundDone /\ ~usedFallback) => result = expected

WindowTicks == StaleDays * TicksPerDay

C3_AtomicReplaceAsStated ==
    /\ pc # "idle" => observed = cacheAtStart
    /\ (RoundDone /\ caller.op = "force_refresh") => festivals_cache = result

\* C4 as stated: a refresh goes to the feeds exactly when it is forced, or no
\* last refresh is on record, or more than 180 days have passed since it.
C4_StalenessAsStated ==
    last.fresh =>
        (last.fetched <=> \/ last.force
                          \/ ~last.hadRecord
                          \/ last.elapsed > WindowTicks)

\* C4 amended: a refresh goes to the feeds exactly when it is forced, or no
\* last refresh is on record, or the whole days passed since it number more
\* than 180 (so 181 days or more; 180 days and some hours are skipped).
C4_StalenessPolicy ==
    last.fresh =>
        (last.fetched <=> \/ last.force
                          \/ ~last.hadRecord
                          \/ last.elapsed \div TicksPerDay > StaleDays)

C4_SkippedAtExactly180Days ==
    /\ last.fresh /\ ~last.force /\ last.hadRecord
    /\ last.elapsed = WindowTicks
    /\ ~last.fetched

ScenarioRun ==
    /\ analysis.kind # "none"
    /\ args.op = "classify"
    /\ args \in ScenarioInputs

\* C5 as stated: on the flat data of 5 calls a day with 20 calls on January 15
\* the classifier, at thresholds 1.3 and 3, returns one assessment, that of
\* January 15, with impact_ratio 20/5 = 4.0 and impact_category 'high'.
C5_ScenarioAsStated ==
    ScenarioRun =>
        /\ analysis.kind = "returned"
        /\ Len(analysis.value) = 1
        /\ analysis.value[1].key = Scenario.festival.key
        /\ analysis.value[1].impact_ratio = 400
        /\ analysis.value[1].impact_category = "high"

\* C5 amended: on that data the classifier returns one assessment, that of
\* January 15, of impact_category 'high' and max_impact_ratio 20/5 = 4.0; its
\* impact_ratio is the mean of the calls of January 14, 15 and 16 over the
\* baseline 5, which is (5 + 20 + 5) / 3 / 5 = 2.0 when the data holds both
\* neighbours, and (20 + 5) / 2 / 5 = 2.5 when it starts on January 15.
C5_Scenario ==
    ScenarioRun =>
        /\ analysis.kind = "returned"
        /\ Len(analysis.value) = 1
        /\ analysis.value[1].key = Scenario.festival.key
        /\ analysis.value[1].impact_category = "high"
        /\ analysis.value[1].max_impact_ratio = 400
        /\ analysis.value[1].baseline_calls = 50
        /\ analysis.value[1].impact_ratio =
              IF Jan(14) \in DOMAIN args.call_data.daily THEN 200 ELSE 250

C5_JanuaryFifteenRatioTwo ==
    /\ ScenarioRun
    /\ DOMAIN args.call_data.daily = Jan(1)..Jan(30)
    /\ Len(analysis.value) = 1
    /\ analysis.value[1].impact_ratio = 200
    /\ analysis.value[1].avg_calls_during = 100

\* C6: a title whose lowercase form contains a blocklist term is rejected even
\* when it contains an allowlist keyword too, and a title that contains
\* 'diwali' and no blocklist term is accepted.
C6_BlocklistWins ==
    verdict # "unset" =>
        /\ ContainsAny(Lower(title), excluded_keywords) => verdict = "reject"
        /\ (Contains(Lower(title), "diwali") /\ ~ContainsAny(Lower(title), excluded_keywords))
              => verdict = "accept"

C6_DiwaliAwarenessDayRejected ==
    /\ title = "Diwali Awareness Day"
    /\ verdict = "reject"

HasKeyword(summary) ==
    \/ ContainsAny(Lower(summary), excluded_keywords)
    \/ ContainsAny(Lower(summary), festival_keywords)

\* C7: every record of the parsed map stems from an event that has a title,
\* a start date and a keyword of one of the two lists in its title; an event
\* without one of these leaves no record.
C7_ConservativeFilter ==
    pc = "parsed" =>
        \A k \in DOMAIN lastParsed :
            \E i \in 1..Len(lastRaw.body.components) :
                LET component == lastRaw.body.components[i]
                IN  /\ GetStr(component, "summary") # ""
                    /\ component.dtstart.kind # "none"
                    /\ HasKeyword(GetStr(component, "summary"))
                    /\ k = strftime_ymd(EventDate(component.dtstart))
                    /\ lastParsed[k] = FestivalOf(component)

C7_PlainEventsDropped ==
    /\ pc = "parsed"
    /\ lastParsed # EmptyMap
    /\ \E i, j \in 1..Len(lastRaw.body.components) :
          /\ lastRaw.body.components[i] \in {EvLunch, EvUntitled, EvUndated}
          /\ Accepted(lastRaw.body.components[j])

FallbackYearsOf(t) == (YearOf(t) - YearsBack)..(YearOf(t) + YearsBack)

\* C8 as stated: when every feed fails the refresh returns the fallback
\* table, which holds, for each year from 25 before to 25 after the current
\* one, a record for each of the 14 base festivals, all of source 'fallback'.
C8_FallbackTableAsStated ==
    (RoundDone /\ failed = 1..NumSources) =>
        /\ usedFallback
        /\ \A k \in DOMAIN result : result[k].source = "fallback"
        /\ \A year \in FallbackYearsOf(now) :
              \A i \in 1..Len(base_festivals) :
                  \E k \in DOMAIN result :
                      /\ result[k].name = base_festivals[i].name
                      /\ result[k].date.y = year

\* C9: a feed that is unreachable or unparsable does not end the round: each
\* source is fetched in its turn, and the map the round returns has a record
\* for every date a feed yielded.
C9_FeedFailureIsolation ==
    /\ pc = "fetching" => attempted = 1..(src - 1)
    /\ pc = "storing" => attempted = 1..NumSources
    /\ RoundDone => /\ attempted = 1..NumSources
                    /\ yielded \subseteq DOMAIN result

C9_LaterFeedServedAfterFailure ==
    /\ RoundDone
    /\ 1 \in failed
    /\ yielded # {}
    /\ ~usedFallback

\* no row of the frame is of the category asked for
NoRowOfCategory(df, category) ==
    \A c \in DOMAIN df.cells : Lower(c[2]) = Lower(category) => df.cells[c] = 0

EmptyCategoryRun ==
    /\ analysis.kind # "none"
    /\ \/ args.op = "top_n" /\ NoRowOfCategory(args.df, args.category)
       \/ args.op = "classify" /\ FrameEmpty(args.call_data)

ClassifyRun ==
    /\ analysis.kind # "none"
    /\ args.op = "classify"

\* the day range of the data of the classify call, the baseline over it and
\* the figures of one candidate festival, taken from the call's arguments
ArgDaily == DailyCalls(args.call_data)

ArgBaseline ==
    BaselineCalls(ArgDaily,
        FestivalDates(FestivalsInDataRange(args.festivals, SetMin(DOMAIN ArgDaily),
                                           SetMax(DOMAIN ArgDaily)),
                      SetMin(DOMAIN ArgDaily), SetMax(DOMAIN ArgDaily)))

\* an assessment is computed for the festival: the data has rows, the
\* festival lies inside their day range and one of its three days has calls
Assessed(f) ==
    /\ ~FrameEmpty(args.call_data)
    /\ args.call_data.has_call_ts
    /\ SetMin(DOMAIN ArgDaily) <= ToDate(f.date)
    /\ ToDate(f.date) <= SetMax(DOMAIN ArgDaily)
    /\ \E d \in {ToDate(f.date) - 1, ToDate(f.date), ToDate(f.date) + 1} : d \in DOMAIN ArgDaily

WindowPresent(f) ==
    {d \in {ToDate(f.date) - 1, ToDate(f.date), ToDate(f.date) + 1} : d \in DOMAIN ArgDaily}

\* mean of the daily counts of the festival's days that have calls
AvgDuring(f) == MeanOver(ArgDaily, WindowPresent(f))

RatioOf(f) == IF ArgBaseline.n > 0 THEN FracDiv(AvgDuring(f), ArgBaseline) ELSE Whole(1)

Returns(f) == \E j \in 1..Len(analysis.value) : analysis.value[j].key = f.key

\* C11: the classifier returns a festival exactly when an assessment was
\* computed for it and both its impact_ratio reaches impact_threshold and its
\* average of calls reaches min_calls_threshold; one of the two is not enough.
C11_SignificanceFilter ==
    ClassifyRun =>
        \A i \in 1..Len(args.festivals) :
            LET f == args.festivals[i]
            IN  Returns(f) <=>
                    /\ Assessed(f)
                    /\ FracGE(RatioOf(f), args.impact_threshold)
                    /\ FracGE(AvgDuring(f), Whole(args.min_calls_threshold))

C11_RatioAloneNotReturned ==
    /\ ClassifyRun
    /\ \E i \in 1..Len(args.festivals) :
          LET f == args.festivals[i]
          IN  /\ Assessed(f)
              /\ FracGE(RatioOf(f), args.impact_threshold)
              /\ ~FracGE(AvgDuring(f), Whole(args.min_calls_threshold))
              /\ ~Returns(f)
    /\ \E i \in 1..Len(args.festivals) : Returns(args.festivals[i])

\* the candidate the returned record was made from
CandidateOf(record) ==
    CHOOSE f \in {args.festivals[i] : i \in 1..Len(args.festivals)} : f.key = record.key

BaselineTenRun(festival_calls) ==
    /\ ClassifyRun
    /\ args.call_data = BaselineTenData(festival_calls)

\* C12 as stated: in every returned assessment impact_category is 'high'
\* exactly when its impact_ratio is at least 2.0, 'moderate' exactly when it
\* is at least 1.5 and below 2.0, and 'low' otherwise.
C12_CategoryOfReportedRatioAsStated ==
    ClassifyRun =>
        \A j \in 1..Len(analysis.value) :
            LET record == analysis.value[j]
            IN  /\ record.impact_category = "high" <=> record.impact_ratio >= 200
                /\ record.impact_category = "moderate" <=>
                      (record.impact_ratio >= 150 /\ record.impact_ratio < 200)
                /\ record.impact_category = "low" <=> record.impact_ratio < 150

\* What the code does guarantee: impact_category follows the ratio before it is
\* rounded to two decimals for the record: 'high' exactly when that ratio is at least 2,
\* 'moderate' when it is at least 1.5 and below 2, 'low' otherwise.  With a
\* baseline of 10, an average of 15 gives 1.5 and 'moderate', 20 gives 2.0
\* and 'high', and 11 gives 1.1, which is 'low' and is left out at 1.3.
CategoryOfUnroundedRatio ==
    /\ ClassifyRun =>
          \A j \in 1..Len(analysis.value) :
              LET record == analysis.value[j]
                  ratio  == RatioOf(CandidateOf(record))
              IN  /\ record.impact_category = "high" <=> FracGE(ratio, Whole(2))
                  /\ record.impact_category = "moderate" <=>
                        (FracGE(ratio, Frac(3, 2)) /\ ~FracGE(ratio, Whole(2)))
                  /\ record.impact_category = "low" <=> ~FracGE(ratio, Frac(3, 2))
    /\ BaselineTenRun(15) =>
          /\ Len(analysis.value) = 1
          /\ analysis.value[1].baseline_calls = 100
          /\ analysis.value[1].impact_ratio = 150
          /\ analysis.value[1].impact_category = "moderate"
    /\ BaselineTenRun(20) =>
          /\ Len(analysis.value) = 1
          /\ analysis.value[1].impact_ratio = 200
          /\ analysis.value[1].impact_category = "high"
    /\ BaselineTenRun(11) =>
          /\ analysis.value = <<>>
          /\ RatioOf(FestSankranti) = Frac(11, 10)
          /\ categorize_impact(RatioOf(FestSankranti)) = "low"

C12_ReportedTwoIsModerate ==
    /\ ClassifyRun
    /\ args.call_data = NearTwoData
    /\ Len(analysis.value) = 1
    /\ analysis.value[1].impact_ratio = 200
    /\ analysis.value[1].impact_category = "moderate"

\* C13 as stated: the assessments returned by the classifier stand in
\* descending order of impact_ratio, whatever the order of the candidates.
C13_ResultOrderingAsStated ==
    ClassifyRun =>
        \A j, k \in 1..Len(analysis.value) :
            j < k => analysis.value[j].impact_ratio >= analysis.value[k].impact_ratio

\* the returned dict keeps the order of the candidates: a weaker festival
\* given first is returned first, while the summary shows the stronger first
C13_ReturnedInCandidateOrder ==
    /\ ClassifyRun
    /\ args.festivals = <<FestSankranti, FestPongal>>
    /\ Len(analysis.value) = 2
    /\ analysis.value[1].key = FestSankranti.key
    /\ analysis.value[1].impact_ratio < analysis.value[2].impact_ratio
    /\ analysis.summary[1].key = FestPongal.key

TopNRun == analysis.kind # "none" /\ args.op = "top_n"

\* the day an entry's max_day string names
MaxDayOf(entry) ==
    CHOOSE d \in {c[1] : c \in TopNCells} : strftime_ymd(FromDate(d)) = entry.max_day

\* C14 as stated: the top-N selection returns at most top_n entries in
\* descending order of max_count, and two entries of equal max_count stand in
\* ascending order of date, whatever the order of the festival list.
C14_TopNOrderingAsStated ==
    TopNRun =>
        /\ Len(analysis.value) <= args.top_n
        /\ \A j, k \in 1..Len(analysis.value) :
              j < k =>
                  /\ analysis.value[j].max_count >= analysis.value[k].max_count
                  /\ analysis.value[j].max_count = analysis.value[k].max_count
                        => MaxDayOf(analysis.value[j]) <= MaxDayOf(analysis.value[k])

\* what the stable sort does give: at most top_n entries, max_count descending
TopNCountDescending ==
    TopNRun =>
        /\ Len(analysis.value) <= args.top_n
        /\ \A j, k \in 1..Len(analysis.value) :
              j < k => analysis.value[j].max_count >= analysis.value[k].max_count

\* two festivals of equal max_count are returned in the order of the list,
\* the later date first
C14_TieInListOrder ==
    /\ TopNRun
    /\ Len(args.festivals_in_range) = 2
    /\ Len(analysis.value) = 2
    /\ analysis.value[1].name = args.festivals_in_range[1][1]
    /\ analysis.value[1].max_count = analysis.value[2].max_count
    /\ MaxDayOf(analysis.value[1]) > MaxDayOf(analysis.value[2])

\* the candidates that lie within the observed range of the call data
ArgInRange ==
    FestivalsInDataRange(args.festivals, SetMin(DOMAIN ArgDaily), SetMax(DOMAIN ArgDaily))

\* every day present lies within one day of a candidate in the data range
EveryDayFestivalAdjacent ==
    /\ ~FrameEmpty(args.call_data)
    /\ args.call_data.has_call_ts
    /\ ArgInRange # <<>>
    /\ \A d \in DOMAIN ArgDaily :
          \E i \in 1..Len(ArgInRange) :
              Abs(d - ToDate(ArgInRange[i].date)) <= 1

\* C15: when every day present in the call data lies within one day of a
\* candidate festival of the data range, the classifier completes without
\* error and its baseline is the mean daily count over all days present,
\* which every returned assessment reports (to one decimal).
C15_BaselineDegradation ==
    (ClassifyRun /\ EveryDayFestivalAdjacent) =>
        /\ analysis.kind = "returned"
        /\ ArgBaseline = MeanOver(ArgDaily, DOMAIN ArgDaily)
        /\ \A j \in 1..Len(analysis.value) :
              analysis.value[j].baseline_calls
                  = RoundTo(MeanOver(ArgDaily, DOMAIN ArgDaily), 10)

C15_AllDaysMeanReported ==
    /\ ClassifyRun
    /\ EveryDayFestivalAdjacent
    /\ Cardinality(DOMAIN ArgDaily) >= 3
    /\ \E d, e \in DOMAIN ArgDaily : ArgDaily[d] # ArgDaily[e]
    /\ Len(analysis.value) >= 1
    /\ analysis.value[1].baseline_calls > 0

\* the category the analysis is asked about; the classifier takes none
RequestedCategory == "crime"

\* the frame with the rows of the other categories removed
ScopedFrame(call_data, category) ==
    [ call_data EXCEPT !.daily =
        [d \in DOMAIN call_data.daily |->
            SumOver(call_data.rows,
                    {c \in DOMAIN call_data.rows :
                        c[1] = d /\ Lower(c[2]) = Lower(category)})] ]

CategoryRun == ClassifyRun /\ "rows" \in DOMAIN args.call_data

\* C16 as stated: the classifier's baseline and window counts come from the
\* calls of the requested category alone (matched without regard to case), so
\* its result is the one it gives on the frame without the other categories'
\* rows.
C16_CategoryScopingAsStated ==
    CategoryRun =>
        analysis = filter_festivals_by_crime_impact(args.festivals,
                        ScopedFrame(args.call_data, RequestedCategory),
                        args.impact_threshold, args.min_calls_threshold)

\* rows of another category on a day outside the window lower the ratio the
\* festival is returned with
C16_OtherCategoryChangesRatio ==
    /\ CategoryRun
    /\ args.call_data.rows[<<Jan(12), "Crime">>] = 1
    /\ args.call_data.rows[<<Jan(15), "crime">>] = 2
    /\ args.call_data.rows[<<Jan(12), "medical">>] = 1
    /\ args.call_data.rows[<<Jan(15), "medical">>] = 0
    /\ Len(analysis.value) = 1
    /\ analysis.value[1].baseline_calls = 20
    /\ analysis.value[1].impact_ratio = 100

ByHourRun == analysis.kind # "none" /\ args.op = "by_hour"

\* the frame has the hour column and rows at hours 5 and 20 alone
OnlyFiveAndTwenty ==
    /\ args.df.has_hour
    /\ {c[2] : c \in {x \in DOMAIN args.df.rows : args.df.rows[x] > 0}} = {5, 20}

\* 24 entries, hours 0..23 ascending, the count of every hour its rows
GapFilled(value) ==
    /\ Len(value) = HoursPerDay
    /\ \A i \in 1..Len(value) :
          /\ value[i].hour = i - 1
          /\ value[i].count = SumOver(args.df.rows,
                                  {c \in DOMAIN args.df.rows : c[2] = i - 1})

\* C17 as stated: agg_calls_by_hour returns exactly 24 entries, one for each
\* hour 0..23 in ascending order, for every call dataset, an hour without
\* calls having count 0; calls at hours 5 and 20 alone give 22 zero entries.
C17_HourGapFillingAsStated ==
    ByHourRun =>
        /\ analysis.kind = "returned"
        /\ GapFilled(analysis.value)
        /\ OnlyFiveAndTwenty =>
              Cardinality({i \in 1..Len(analysis.value) : analysis.value[i].count = 0}) = 22

\* the function of src/analysis.py does fill the gaps when the frame has
\* the hour column
TopLevelGapFilled ==
    (ByHourRun /\ args.module = "analysis" /\ args.df.has_hour) =>
        /\ analysis.kind = "returned"
        /\ GapFilled(analysis.value)

\* the dashboard's function returns the two hours that have calls and no more
C17_DashboardReturnsTwoEntries ==
    /\ ByHourRun
    /\ args.module = "modules.analysis"
    /\ OnlyFiveAndTwenty
    /\ Len(analysis.value) = 2
    /\ analysis.value[1].hour = 5
    /\ analysis.value[2].hour = 20

\* a get_festivals_in_range call has come back
RangeDone == pc = "idle" /\ caller.op \in {"get", "get_cached"}

\* the hours from the start of the epoch year to a datetime
HourOrdinal(dt) == (ToDate(dt) * HoursPerDay) + dt.h

InRange(dt) ==
    /\ HourOrdinal(caller.start_date) <= HourOrdinal(dt)
    /\ HourOrdinal(dt) <= HourOrdinal(caller.end_date)

\* C18 as stated: get_festivals_in_range returns exactly the stored records
\* whose date d satisfies start <= d <= end, both bounds included, and when
\* start > end or no record lies in the range it returns an empty result and
\* raises no error.
C18_RangeQueryAsStated ==
    RangeDone =>
        /\ result # TypeError
        /\ DOMAIN result = {k \in DOMAIN festivals_cache : InRange(festivals_cache[k].date)}
        /\ \A k \in DOMAIN result : result[k] = festivals_cache[k]
        /\ (HourOrdinal(caller.start_date) > HourOrdinal(caller.end_date))
              => result = EmptyMap

\* when every stored date is naive like the bounds, the query is exact
RangeExactWhenNaive ==
    (RangeDone /\ \A k \in DOMAIN festivals_cache : ~IsAware(festivals_cache[k].date)) =>
        /\ result # TypeError
        /\ DOMAIN result = {k \in DOMAIN festivals_cache : InRange(festivals_cache[k].date)}
        /\ \A k \in DOMAIN result : result[k] = festivals_cache[k]

\* a query with start > end raises on a stored record whose date is aware
C18_EmptyRangeRaises ==
    /\ RangeDone
    /\ HourOrdinal(caller.start_date) > HourOrdinal(caller.end_date)
    /\ \E k \in DOMAIN festivals_cache : IsAware(festivals_cache[k].date)
    /\ result = TypeError

\* both bounds are included: a record dated exactly at start = end is returned
RangeBoundsIncluded ==
    /\ RangeDone
    /\ caller.start_date = caller.end_date
    /\ DOMAIN result = {"2026-03-08"}
    /\ result["2026-03-08"].date = caller.start_date

\* no candidate's date lies within the first and last day of the call data
NoFestivalInDataRange ==
    /\ ~FrameEmpty(args.call_data)
    /\ \A i \in 1..Len(args.festivals) :
          \/ ToDate(args.festivals[i].date) < SetMin(DOMAIN ArgDaily)
          \/ ToDate(args.festivals[i].date) > SetMax(DOMAIN ArgDaily)

\* C19: the classifier returns an empty result and raises no error when the
\* call dataset is empty, when the festival set is empty, and when no festival
\* date lies within the first and last date of the call data.
C19_EmptyInputs ==
    (ClassifyRun /\ (\/ FrameEmpty(args.call_data)
                     \/ args.festivals = <<>>
                     \/ NoFestivalInDataRange)) =>
        /\ analysis.kind = "returned"
        /\ analysis.value = <<>>

\* the data ends the day before the only candidate: its window has calls, its
\* date is out of the range, and nothing is returned
C19_FestivalJustAfterData ==
    /\ ClassifyRun
    /\ args.festivals = <<FestPongal>>
    /\ DOMAIN ArgDaily = {Jan(16)}
    /\ args.min_calls_threshold <= ArgDaily[Jan(16)]
    /\ args.impact_threshold = Whole(1)
    /\ analysis = Returned(<<>>, <<>>)

\* a step in which one of the two analyses runs
AnalysisStep == analysis.kind = "none" /\ analysis'.kind # "none"

\* C20 as stated: a run of the impact classifier or of the top-N selection
\* leaves the caller's call dataset and candidates, and the stored festival
\* map, as they were: no column added or rewritten, no record gaining fields.
C20_AnalysisPurityAsStated ==
    [][AnalysisStep => (args' = args /\ festivals_cache' = festivals_cache)]_vars

\* the classifier works on copies: its run changes neither
ClassifierPure ==
    [][(AnalysisStep /\ args.op = "classify")
          => (args' = args /\ festivals_cache' = festivals_cache)]_vars

\* the top-N selection has rewritten the date column of the caller's frame
C20_DateColumnRewritten ==
    /\ TopNRun
    /\ analysis.kind = "returned"
    /\ args.df.date_dtype = "datetime64[ns]"

\* compute_kpis has run on a frame that has rows and the date column
KpiRun ==
    /\ analysis.kind # "none"
    /\ args.op = "kpis"
    /\ args.df.has_date
    /\ ~HourFrameEmpty(args.df)

\* C21 as stated: compute_kpis reports as average-per-day the total call count
\* divided by the number of distinct days present in the data, not by the
\* span from the first to the last day, and not rounded to a whole number.
C21_AveragePerDayAsStated ==
    KpiRun =>
        analysis.value.avg_per_day
            = Frac(TotalCalls(args.df), Cardinality(DatesPresent(args.df)))

\* the dashboard's function does divide by the distinct days, and rounds the
\* quotient to a whole number
DashboardAverageRounded ==
    (KpiRun /\ args.module = "modules.analysis") =>
        analysis.value.avg_per_day
            = Whole(RoundTo(Frac(TotalCalls(args.df), Cardinality(DatesPresent(args.df))), 1))

\* three calls on two days are reported by the dashboard as 2 per day
C21_ThreeOverTwoReportedAsTwo ==
    /\ KpiRun
    /\ args.module = "modules.analysis"
    /\ TotalCalls(args.df) = 3
    /\ Cardinality(DatesPresent(args.df)) = 2
    /\ analysis.value.avg_per_day = Whole(2)

\* the days present that lie outside the window of every candidate of the
\* data range
DaysOutsideWindows ==
    {d \in DOMAIN ArgDaily :
        \A i \in 1..Len(ArgInRange) : Abs(d - ToDate(ArgInRange[i].date)) > 1}

BaselineComputed ==
    /\ ClassifyRun
    /\ ~FrameEmpty(args.call_data)
    /\ args.call_data.has_call_ts
    /\ ArgInRange # <<>>

\* C22: when at least one day present in the data is outside the window (the
\* day before, of and after) of every candidate festival of the data range,
\* the baseline is the arithmetic mean of the daily counts over exactly those
\* days, which every returned assessment reports (to one decimal); no day at
\* distance 0 or 1 from such a festival contributes.
C22_BaselineExclusion ==
    (BaselineComputed /\ DaysOutsideWindows # {}) =>
        /\ ArgBaseline = MeanOver(ArgDaily, DaysOutsideWindows)
        /\ \A j \in 1..Len(analysis.value) :
              analysis.value[j].baseline_calls
                  = RoundTo(MeanOver(ArgDaily, DaysOutsideWindows), 10)

\* a day next to the festival has calls that would change the mean, and the
\* returned baseline is that of the one day outside the window
C22_NeighbourDayLeftOut ==
    /\ BaselineComputed
    /\ args.festivals = <<FestSankranti>>
    /\ DaysOutsideWindows = {Jan(12)}
    /\ Jan(14) \in DOMAIN ArgDaily
    /\ ArgDaily[Jan(14)] # ArgDaily[Jan(12)]
    /\ Len(analysis.value) = 1
    /\ analysis.value[1].baseline_calls = 10 * ArgDaily[Jan(12)]

\* a candidate outside the data range takes no part: the last day of the
\* data, the day before Pongal, is the baseline
OutOfRangeCandidateDayCounts ==
    /\ BaselineComputed
    /\ args.festivals = <<FestLohri, FestPongal>>
    /\ DOMAIN ArgDaily = {Jan(12), Jan(16)}
    /\ ArgBaseline = Whole(ArgDaily[Jan(16)])

\* the festival is among the assessments the summary lists
InSummary(f) == \E j \in 1..Len(analysis.summary) : analysis.summary[j].key = f.key

\* C23: for each candidate festival avg_calls_during and max_calls_during are
\* the mean and the maximum of the daily counts of those of the day before,
\* the day and the day after that are present in the data, an absent day
\* counting neither as zero nor in the divisor; a festival with none of the
\* three days present gets no assessment.
C23_WindowCounts ==
    ClassifyRun =>
        /\ \A j \in 1..Len(analysis.value) :
              LET record == analysis.value[j]
                  f      == CandidateOf(record)
              IN  /\ WindowPresent(f) # {}
                  /\ record.avg_calls_during = RoundTo(AvgDuring(f), 10)
                  /\ record.max_calls_during
                        = SetMax({ArgDaily[d] : d \in WindowPresent(f)})
        /\ \A i \in 1..Len(args.festivals) :
              InSummary(args.festivals[i]) <=> Assessed(args.festivals[i])

\* two of the festival's three days are present, with 1 and 2 calls: the
\* average is 1.5 and the maximum 2
C23_TwoDaysPresent ==
    /\ ClassifyRun
    /\ args.festivals = <<FestLohri, FestPongal>>
    /\ DOMAIN ArgDaily = {Jan(12), Jan(16), Jan(17)}
    /\ Len(analysis.value) >= 1
    /\ \E j \in 1..Len(analysis.value) :
          /\ analysis.value[j].key = FestPongal.key
          /\ analysis.value[j].avg_calls_during = 15
          /\ analysis.value[j].max_calls_during = 2

\* a festival inside the data range with no call on its three days is left
\* out of the summary
NoDayPresentNoAssessment ==
    /\ ClassifyRun
    /\ args.festivals = <<FestSankranti>>
    /\ DOMAIN ArgDaily = {Jan(12), Jan(17)}
    /\ analysis.summary = <<>>

AssessRun == analysis.kind # "none" /\ args.op = "assess"

\* C24: impact_ratio is avg_calls_during / baseline whenever the baseline is
\* positive and exactly 1 whenever it is not; nothing is divided by zero.
C24_ZeroBaselineGuard ==
    AssessRun =>
        LET entry    == analysis.value[1]
            baseline == args.baseline_calls
            total    == SumSeq(args.period_calls)
            days     == Len(args.period_calls)
        IN  /\ entry.impact_ratio.d > 0
            /\ entry.max_impact_ratio.d > 0
            /\ baseline.n > 0 =>
                  entry.impact_ratio.n * baseline.n * days
                      = total * baseline.d * entry.impact_ratio.d
            /\ baseline.n <= 0 =>
                  /\ entry.impact_ratio = Whole(1)
                  /\ entry.max_impact_ratio = Whole(1)

\* with a baseline of zero and calls in the window the ratio is 1
C24_ZeroBaselineRatioOne ==
    /\ AssessRun
    /\ args.baseline_calls = Whole(0)
    /\ SumSeq(args.period_calls) > 0
    /\ analysis.value[1].impact_ratio = Whole(1)

\* C25: whenever the classifier gets as far as the ratios its baseline is at
\* least 1, the daily counts being taken over days that have a call; the
\* branch that sets the ratio to 1 for a baseline of zero is never taken.
C25_BaselineAtLeastOne ==
    BaselineComputed =>
        /\ \A d \in DOMAIN ArgDaily : ArgDaily[d] >= 1
        /\ FracGE(ArgBaseline, Whole(1))
        /\ ArgBaseline.n > 0
        /\ \A j \in 1..Len(analysis.value) : analysis.value[j].baseline_calls >= 10

\* the only day outside the window has one call, a day between it and the
\* festival has none: the baseline is 1, not below
C25_BaselineExactlyOne ==
    /\ BaselineComputed
    /\ args.festivals = <<FestPongal>>
    /\ args.call_data.daily[Jan(12)] = 1
    /\ args.call_data.daily[Jan(14)] = 0
    /\ args.call_data.daily[Jan(15)] = 0
    /\ Len(analysis.value) = 1
    /\ analysis.value[1].baseline_calls = 10

\* the key is among the returned records
ReturnsKey(key) == \E j \in 1..Len(analysis.value) : analysis.value[j].key = key

\* C26 as stated: the summary and the returned set agree: a festival the
\* summary marks 'Included' is in the returned set and one it marks
\* 'Filtered out' is not.
C26_SummaryAgreesAsStated ==
    ClassifyRun =>
        \A j \in 1..Len(analysis.summary) :
            /\ analysis.summary[j].status = "Included"
                  => ReturnsKey(analysis.summary[j].key)
            /\ analysis.summary[j].status = "Filtered out"
                  => ~ReturnsKey(analysis.summary[j].key)

\* what does hold: a returned festival is marked 'Included', and one marked
\* 'Filtered out' is not returned
ReturnedAreIncluded ==
    ClassifyRun =>
        \A j \in 1..Len(analysis.summary) :
            /\ ReturnsKey(analysis.summary[j].key)
                  => analysis.summary[j].status = "Included"
            /\ analysis.summary[j].status = "Filtered out"
                  => ~ReturnsKey(analysis.summary[j].key)

\* a festival whose ratio reaches the threshold with too few calls is marked
\* 'Included' and is not returned
C26_IncludedButNotReturned ==
    /\ ClassifyRun
    /\ args.festivals = <<FestSankranti>>
    /\ args.min_calls_threshold = 3
    /\ Len(analysis.summary) = 1
    /\ analysis.summary[1].status = "Included"
    /\ analysis.value = <<>>

\* C27: the fallback table replaces the result of a refresh exactly when no
\* feed yielded an accepted festival, a feed that answers and parses without a
\* festival-like event counting like one that failed; and when the fallback
\* is used the map holds fallback records alone, otherwise imported ones alone.
C27_FallbackIffNothingYielded ==
    RoundDone =>
        /\ usedFallback <=> yielded = {}
        /\ usedFallback =>
              /\ result = create_minimal_fallback_database(now)
              /\ result # EmptyMap
              /\ \A k \in DOMAIN result : result[k].source = "fallback"
        /\ ~usedFallback =>
              /\ DOMAIN result = yielded
              /\ \A k \in DOMAIN result : result[k].source = "ics_import"

\* a feed answered and parsed, none yielded a festival: the fallback is used
C27_EmptyFeedCountsAsFailed ==
    /\ RoundDone
    /\ attempted = 1..NumSources
    /\ failed # 1..NumSources
    /\ usedFallback
    /\ \A k \in DOMAIN result : result[k].source = "fallback"

\* ------------------------------------ SpecOutage: refreshes around an outage

\* the outcomes of one source: the feed is down, or it serves one festival
OutageOutcomes == {Unreachable, Answer(IcsText(<<EvDiwali>>))}

NextOutage ==
    \/ \E force_refresh \in BOOLEAN : InitializeFestivalDatabase(force_refresh)
    \/ FetchSource(OutageOutcomes, TRUE)
    \/ StoreAndReturn
    \/ TickSmall
    \/ TickJump

SpecOutage == Init /\ [][NextOutage]_vars

\* the call just made is a non-forced initialize_festival_database()
NonForcedInitialize ==
    /\ last.valid
    /\ last.fresh
    /\ ~last.force
    /\ caller.op = "initialize"

\* every stored record comes from the fallback table
StoredIsFallback ==
    /\ jsonFile.exists
    /\ jsonFile.data # EmptyMap
    /\ \A k \in DOMAIN jsonFile.data : jsonFile.data[k].source = "fallback"

\* the fetch round before the call ended with the fallback table, and the
\* database and the timestamp it wrote are the ones on disk
AfterSavedOutage ==
    /\ last.hadFallback
    /\ last.hadFetch
    /\ last.hadRecord
    /\ last.elapsed = last.sinceFetch
    /\ metaFile.exists
    /\ metaFile.sources = {"fallback"}
    /\ StoredIsFallback

GetAfterForceRefresh ==
    /\ pc = "idle"
    /\ caller.op = "force_refresh"
    /\ caller'.op \in {"get", "get_cached"}

\* when the forced refresh wrote both files the range query loads the map
\* back from the database file and serves its records in the range
ForcedMapServedWhenSaved ==
    [][(/\ GetAfterForceRefresh
        /\ jsonFile = ToJson(result)
        /\ metaFile.exists
        /\ metaFile.last_update = now)
       => /\ pc' = "idle"
          /\ result' = RangeResult(result, caller'.start_date, caller'.end_date)]_vars

\* C29 as stated: the get_festivals_in_range call that follows
\* force_refresh_database goes to no feed and returns the records of the map
\* the refresh returned that fall in the requested range, whether or not the
\* refresh managed to write its files
C29_ForcedMapServedAsStated ==
    [][GetAfterForceRefresh
       => /\ pc' = "idle"
          /\ result' = RangeResult(result, caller'.start_date, caller'.end_date)]_vars

\* every key of the map is the ISO date of its record
KeyedByIsoDate(festivals) ==
    \A k \in DOMAIN festivals : k = strftime_ymd(festivals[k].date)

\* the two maps have the same keys and, key by key, the same four fields
SameRecords(a, b) ==
    /\ DOMAIN a = DOMAIN b
    /\ \A k \in DOMAIN a :
          /\ a[k].name = b[k].name
          /\ a[k].date = b[k].date
          /\ a[k].description = b[k].description
          /\ a[k].source = b[k].source

\* C30: the map a refresh produces, merged from the feeds or the fallback
\* table, is keyed by the ISO date of each record, and once
\* _save_festival_database has written it, _load_local_festival_database
\* returns a map with the same keys and the same name, date, description and
\* source under each key.
C30_PersistenceRoundTrip ==
    RoundDone =>
        /\ KeyedByIsoDate(result)
        /\ jsonFile.exists =>
              /\ SameRecords(load_local_festival_database, result)
              /\ load_local_festival_database = result
              /\ KeyedByIsoDate(load_local_festival_database)

\* a festival that starts at 18:00 comes back from the file with its hour
C30_EveningFestivalReadBack ==
    /\ RoundDone
    /\ jsonFile.exists
    /\ ~usedFallback
    /\ \E k \in DOMAIN result :
          /\ result[k].date.h = 18
          /\ k \in DOMAIN load_local_festival_database
          /\ load_local_festival_database[k].date = result[k].date

\* the fallback table comes back from the file as it was saved
FallbackTableReadBack ==
    (RoundDone /\ usedFallback /\ jsonFile.exists) =>
        /\ result # EmptyMap
        /\ load_local_festival_database = result

\* a date with a UTC offset comes back with its offset: the map the range
\* query caches is the map the database file gives back
RoundTripKeepsOffset ==
    (pc = "idle" /\ festivals_cache # EmptyMap /\ jsonFile.exists) =>
        /\ load_local_festival_database = festivals_cache
        /\ KeyedByIsoDate(festivals_cache)

====
